---- MODULE Spec2Model ----
(***************************************************************************)
(* Run-coordination core of the changelog notification bot: the            *)
(* distributed lock (src/db/redis.ts), the version state and the failure   *)
(* tracker (src/db/state.ts), the summary cache                            *)
(* (src/cache/summary-cache.ts) and the run orchestrator                   *)
(* (src/workers/notify-all.ts).  Every invocation of                       *)
(* runMultiWorkspaceNotification is a process; the key-value store is the  *)
(* only shared state; every await of the orchestrator is a step.           *)
(***************************************************************************)
EXTENDS Integers, Sequences, FiniteSets, TLC

\* ------------------------------------------------------------------ bounds
\* number of invocations (scheduled or manual triggers) in one behaviour
MaxInvocations == 2

\* number of steps of one behaviour in which the environment fails the
\* program (a rejected store call, a failed external call, a crash, a pass
\* that outlives its lock key)
MaxFaults == 1

\* number of workspaces in the list handed to processInBatches
MaxItems == 11

\* largest maxAttempts a caller of withRetry passes
MaxAttempts == 4

\* number of registry calls on one team that are in progress at once
MaxCalls == 2

\* ------------------------------------------------------- program constants
NOTIFICATION_LOCK_TTL == 300
MAX_RETRIES == 3
CONCURRENCY_LIMIT == 10

Procs == {"p1", "p2"}
\* the function instances are interchangeable: a trigger runs on the first
\* instance that is free
ProcIndex(p) == IF p = "p1" THEN 1 ELSE 2
Teams == {"T1", "T2"}
SUPPORTED_LANGUAGES == <<"en", "ko">>
Languages == {SUPPORTED_LANGUAGES[i] : i \in 1..Len(SUPPORTED_LANGUAGES)}

\* tag names are character sequences, so that parsing them is a computation
Null == <<>>
TagOld == <<"v", "1", ".", "9", ".", "0">>
TagNew == <<"v", "1", ".", "1", "0", ".", "0">>
Tags == {TagOld, TagNew}

\* ------------------------------------------------------- version ordering
Digits == {"0", "1", "2", "3", "4", "5", "6", "7", "8", "9"}

DigitValue(c) ==
  CASE c = "0" -> 0 [] c = "1" -> 1 [] c = "2" -> 2 [] c = "3" -> 3
    [] c = "4" -> 4 [] c = "5" -> 5 [] c = "6" -> 6 [] c = "7" -> 7
    [] c = "8" -> 8 [] c = "9" -> 9

\* parseInt of the digits v[i..j]
RECURSIVE parseInt(_, _, _)
parseInt(v, i, j) ==
  IF j < i THEN 0 ELSE parseInt(v, i, j - 1) * 10 + DigitValue(v[j])

\* last index of the run of digits that starts at i (\d+ is greedy)
RECURSIVE DigitRunEnd(_, _)
DigitRunEnd(v, i) ==
  IF i + 1 <= Len(v) /\ v[i + 1] \in Digits THEN DigitRunEnd(v, i + 1) ELSE i

HasDigitAt(v, i) == i <= Len(v) /\ v[i] \in Digits
HasDotAt(v, i) == i <= Len(v) /\ v[i] = "."

\* the match of /(\d+)\.(\d+)\.(\d+)/ that starts at position i, or <<>>
MatchAt(v, i) ==
  IF ~HasDigitAt(v, i) THEN <<>>
  ELSE LET a == DigitRunEnd(v, i) IN
    IF ~(HasDotAt(v, a + 1) /\ HasDigitAt(v, a + 2)) THEN <<>>
    ELSE LET b == DigitRunEnd(v, a + 2) IN
      IF ~(HasDotAt(v, b + 1) /\ HasDigitAt(v, b + 2)) THEN <<>>
      ELSE LET c == DigitRunEnd(v, b + 2) IN
        <<parseInt(v, i, a), parseInt(v, a + 2, b), parseInt(v, b + 2, c)>>

RECURSIVE FirstMatchFrom(_, _)
FirstMatchFrom(v, i) ==
  IF i > Len(v) THEN <<0, 0, 0>>
  ELSE IF MatchAt(v, i) # <<>> THEN MatchAt(v, i)
  ELSE FirstMatchFrom(v, i + 1)

parseVersion(v) == FirstMatchFrom(v, 1)

\* as isNewerVersion, but the patch numbers are compared with >=
isNewerVersionOrEqual(current, last) ==
  IF last = Null THEN TRUE
  ELSE LET cur == parseVersion(current)
           lst == parseVersion(last)
       IN IF cur[1] # lst[1] THEN cur[1] > lst[1]
          ELSE IF cur[2] # lst[2] THEN cur[2] > lst[2]
          ELSE cur[3] >= lst[3]

\* as isNewerVersion, but any two different names count as a new version
isNewerVersionByName(current, last) == current # last

\* as isNewerVersion, but the minor numbers are not compared
isNewerVersionIgnoreMinor(current, last) ==
  IF last = Null THEN TRUE
  ELSE LET cur == parseVersion(current)
           lst == parseVersion(last)
       IN IF cur[1] # lst[1] THEN cur[1] > lst[1]
          ELSE cur[3] > lst[3]

\* isNewerVersion: the (major, minor, patch) comparison, true when nothing
\* has been stored yet
isNewerVersion(current, last) ==
  IF last = Null THEN TRUE
  ELSE LET cur == parseVersion(current)
           lst == parseVersion(last)
       IN IF cur[1] # lst[1] THEN cur[1] > lst[1]
          ELSE IF cur[2] # lst[2] THEN cur[2] > lst[2]
          ELSE cur[3] > lst[3]

\* ------------------------------------------------------------------ state
VARIABLES
  lock,                  \* store key lock:notification, NoLock when absent
  lastCheckedVersion,    \* store key state:last_checked_version, Null when absent
  lastNotificationTime,  \* store key state:last_notification_time, 0 when absent
  cache,                 \* store keys summary:<version>:<language>
  failed,                \* store keys state:failed_workspaces:<teamId>
  active,                \* store set workspaces:active (with isActive records)
  pc,                    \* position of each invocation
  local,                 \* the local variables of each invocation
  trace,                 \* what each invocation has done (observation only)
  issued,                \* number of invocations started (and the clock)
  overrun,               \* a lock key expired while its holder was running
  faults,                \* number of faults the environment has injected
  call,                  \* one call of a helper function, followed step by step
  history                \* the deliveries made so far (observation only)

storeVars == <<lock, lastCheckedVersion, lastNotificationTime, cache, failed,
               active>>
vars == <<storeVars, pc, local, trace, issued, overrun, faults, call,
          history>>

NoLock == [value |-> 0, ttl |-> 0]
\* the deliveries are not observed. Where they are (observing), received
\* holds the <<team, version>> pairs of the sendWorkspaceNotification calls
\* that returned, retries counts the sendWorkspaceNotification calls of the
\* retry phases for each pair, and sendFailures counts the faults that were
\* sendWorkspaceNotification calls that threw
NoHistory ==
  [observing |-> FALSE, received |-> {},
   retries |-> [k \in Teams \X Tags |-> 0], sendFailures |-> 0]

\* no helper call is being followed
NoCall == [fn |-> "none"]
NoRecord == [version |-> Null, retryCount |-> -1]
NoSummary == [substantial |-> FALSE, korean |-> FALSE, present |-> FALSE]

\* a ChangeSummary, as far as the cache and the language check look at it
Summaries == [substantial : BOOLEAN, korean : BOOLEAN, present : {TRUE}]

\* an empty Map<Language, ChangeSummary> and an empty NotificationResult[]
NoSummaries == [l \in Languages |-> NoSummary]
NoResults == <<>>

\* nothing was tried for any team
NoLog == [t \in Teams |-> "none"]

\* diff (as far as it is read: whether diff.files has items) and cliResult
\* before they are assigned
NoDiff == [files |-> "unread"]
NoCliResult == [changes |-> "unread", compareUrl |-> "unread"]

\* the locals of runMultiWorkspaceNotification, executeNotification and
\* retryPreviouslyFailedNotifications before they are assigned
NoLocals ==
  [lockValue |-> 0, latestTag |-> Null, lastCheckedVersion |-> Null,
   workspaces |-> <<>>, summariesByLanguage |-> NoSummaries,
   results |-> NoResults, failedWorkspaces |-> <<>>, version |-> Null,
   retrySummaries |-> NoSummaries, workspaceMap |-> {},
   generated |-> [l \in Languages |-> "none"], delivered |-> FALSE,
   diff |-> NoDiff, cliResult |-> NoCliResult]

\* nothing observed yet
NoTrace ==
  [run |-> 0, previous |-> "none", effects |-> {}, hadFailures |-> FALSE,
   retried |-> NoLog, effective |-> NoLog, sent |-> NoLog, exit |-> "none",
   endedAt |-> "none", releaseAttempts |-> 0, releaseResult |-> "none",
   outcome |-> "none"]

BodyPcs == {"retry_list", "retry_ws", "retry", "tag", "readver",
            "workspaces", "diff", "generate", "deliver", "record", "setver",
            "setnotif"}
\* positions whose awaited call can reject and is not caught by the body
ThrowPcs == {"retry_list", "retry_ws", "retry", "tag", "readver",
             "workspaces", "diff", "setver", "setnotif"}
RestPcs == {"idle", "done", "crashed"}

\* Workspace.language of each team
WorkspaceLanguage(t) == IF t = "T1" THEN "en" ELSE "ko"

\* teams in installedAt order
TeamOrder == <<"T1", "T2">>

RECURSIVE FilterSeq(_, _)
FilterSeq(seq, keep) ==
  IF seq = <<>> THEN <<>>
  ELSE IF Head(seq) \in keep THEN <<Head(seq)>> \o FilterSeq(Tail(seq), keep)
  ELSE FilterSeq(Tail(seq), keep)

Range(seq) == {seq[i] : i \in 1..Len(seq)}

\* getActiveWorkspaces: the active records sorted by installedAt
getActiveWorkspaces == FilterSeq(TeamOrder, active)

Init ==
  /\ lock = NoLock
  /\ lastCheckedVersion = Null
  /\ lastNotificationTime = 0
  /\ cache = [k \in Tags \X Languages |-> NoSummary]
  /\ failed = [t \in Teams |-> NoRecord]
  /\ active = Teams
  /\ pc = [p \in Procs |-> "idle"]
  /\ local = [p \in Procs |-> NoLocals]
  /\ trace = [p \in Procs |-> NoTrace]
  /\ issued = 0
  /\ overrun = FALSE
  /\ faults = 0
  /\ history = NoHistory
  /\ call = NoCall

\* k more steps in which the environment fails the program: a call to the
\* store, the summarizer, the upstream repository or a workspace rejects,
\* the process dies, or a pass is still running when its lock key expires
Fault(k) ==
  /\ faults + k <= MaxFaults
  /\ faults' = faults + k

Cost(b) == IF b THEN 1 ELSE 0

\* the invocation moves to another position
Goto(p, position) == pc' = [pc EXCEPT ![p] = position]

\* the invocation has done these things to the store or the outside world
Did(p, what) == [trace EXCEPT ![p].effects = @ \cup what]

InBody(p) == pc[p] \in BodyPcs \cup {"release"}

\* ------------------------------------------------------- distributed lock
\* as LockEntry, but the key is stored without an expiry (EX dropped)
LockEntryNoExpiry(value, ttlSeconds) == [value |-> value, ttl |-> 0]

\* the value redis.set(key, lockValue, {nx, ex}) stores
LockEntry(value, ttlSeconds) == [value |-> value, ttl |-> ttlSeconds]

\* as acquireLock, but the SET has no NX: it overwrites a held key
acquireLockNoNX(cur, value, ttlSeconds) ==
  [store |-> LockEntry(value, ttlSeconds), ret |-> value]

\* as acquireLock, but the result of the SET is not looked at
acquireLockIgnoreResult(cur, value, ttlSeconds) ==
  [store |-> IF cur = NoLock THEN LockEntry(value, ttlSeconds) ELSE cur,
   ret |-> value]

\* acquireLock: SET key value NX EX ttl, one atomic store operation
acquireLock(cur, value, ttlSeconds) ==
  IF cur = NoLock
  THEN [store |-> LockEntry(value, ttlSeconds), ret |-> value]
  ELSE [store |-> cur, ret |-> 0]

\* as releaseLock, but a plain DEL that does not compare the stored value
releaseLockAnyHolder(cur, value) == [store |-> NoLock, ret |-> TRUE]

\* releaseLock: the Lua script, an atomic check-and-delete
releaseLock(cur, value) ==
  IF cur.value = value
  THEN [store |-> NoLock, ret |-> TRUE]
  ELSE [store |-> cur, ret |-> FALSE]

\* the holder of the stored key is an invocation that is still running
HolderRuns == \E p \in Procs : InBody(p) /\ local[p].lockValue = lock.value

\* the key reaches its expiry (EX ttl): the store deletes it
ExpireLock ==
  /\ lock # NoLock
  /\ lock.ttl > 0
  /\ Fault(Cost(HolderRuns))
  /\ lock' = NoLock
  /\ overrun' = (overrun \/ HolderRuns)
  /\ UNCHANGED <<history, call, lastCheckedVersion, lastNotificationTime, cache, failed,
                 active, pc, local, trace, issued>>

\* as AfterAcquire, but without the return on a null lockValue
AfterAcquireNoCheck(lockValue, configOk) ==
  IF configOk THEN "retry_list" ELSE "release"

\* runMultiWorkspaceNotification: where control goes after acquireLock
\* returned, and loadMultiWorkspaceConfig returned or threw
AfterAcquire(lockValue, configOk) ==
  IF lockValue = 0 THEN "done"
  ELSE IF configOk THEN "retry_list" ELSE "release"

\* runMultiWorkspaceNotification up to the first await of the body: a
\* scheduled or manual trigger starts an invocation, which calls acquireLock
\* and, holding the lock, loadMultiWorkspaceConfig (which can throw)
Invoke(p) ==
  /\ pc[p] \in RestPcs
  /\ \A q \in Procs : pc[q] \in RestPcs => ProcIndex(p) <= ProcIndex(q)
  /\ issued < MaxInvocations
  /\ issued' = issued + 1
  /\ \E storeOk \in BOOLEAN, configOk \in BOOLEAN :
       LET r == acquireLock(lock, issued + 1, NOTIFICATION_LOCK_TTL)
           started == [NoTrace EXCEPT !.run = issued + 1,
                                      !.previous = trace[p].outcome]
       IN
       /\ Fault(Cost(~storeOk \/ ~configOk))
       /\ IF ~storeOk
          THEN /\ configOk
               /\ lock' = lock
               /\ local' = [local EXCEPT ![p] = NoLocals]
               /\ Goto(p, "done")
               /\ trace' = [trace EXCEPT ![p] =
                              [started EXCEPT !.outcome = "threw", !.endedAt = "acquire"]]
          ELSE /\ r.ret = 0 => configOk
               /\ lock' = r.store
               /\ local' = [local EXCEPT ![p] = [NoLocals EXCEPT !.lockValue = r.ret]]
               /\ Goto(p, AfterAcquire(r.ret, configOk))
               /\ trace' = [trace EXCEPT ![p] =
                              [started EXCEPT
                                 !.outcome = IF r.ret = 0 THEN "returned" ELSE "none",
                                 !.endedAt = IF r.ret # 0 /\ ~configOk THEN "config" ELSE "none"]]
  /\ UNCHANGED <<history, call, lastCheckedVersion, lastNotificationTime, cache, failed,
                 active, overrun>>

\* the finally block of runMultiWorkspaceNotification: releaseLock, whose
\* exception is caught; then the exception of the body, if any, propagates
Release(p) ==
  /\ pc[p] = "release"
  /\ \E storeOk \in BOOLEAN :
       LET r == releaseLock(lock, local[p].lockValue) IN
       /\ Fault(Cost(~storeOk))
       /\ lock' = IF storeOk THEN r.store ELSE lock
       /\ trace' = [trace EXCEPT ![p] =
                      [NoTrace EXCEPT
                         !.run = trace[p].run,
                         !.previous = trace[p].previous,
                         !.releaseAttempts = trace[p].releaseAttempts + 1,
                         !.releaseResult = IF ~storeOk THEN "threw"
                                           ELSE IF r.ret THEN "true" ELSE "false",
                         !.outcome = IF trace[p].endedAt # "none"
                                     THEN "threw" ELSE "returned"]]
  /\ Goto(p, "done")
  /\ local' = [local EXCEPT ![p] = [NoLocals EXCEPT !.lockValue = local[p].lockValue]]
  /\ UNCHANGED <<history, call, lastCheckedVersion, lastNotificationTime, cache, failed,
                 active, issued, overrun>>

\* as BodyThrows, but executeNotification is called outside try/finally
BodyThrowsNoFinally(p) ==
  /\ pc[p] \in ThrowPcs
  /\ Fault(1)
  /\ trace' = [trace EXCEPT ![p].endedAt = pc[p], ![p].outcome = "threw"]
  /\ Goto(p, "done")
  /\ UNCHANGED <<history, call, storeVars, local, issued, overrun>>

\* an awaited call of the body rejects: the exception leaves
\* executeNotification and control enters the finally block
BodyThrows(p) ==
  /\ pc[p] \in ThrowPcs
  /\ Fault(1)
  /\ trace' = [trace EXCEPT ![p].endedAt = pc[p]]
  /\ Goto(p, "release")
  /\ UNCHANGED <<history, call, storeVars, local, issued, overrun>>

\* the process dies (function timeout, kill): nothing more runs
Crash(p) ==
  /\ InBody(p)
  /\ Fault(1)
  /\ Goto(p, "crashed")
  /\ trace' = [trace EXCEPT ![p] =
                 [NoTrace EXCEPT !.run = trace[p].run,
                                 !.previous = trace[p].previous,
                                 !.outcome = "crashed"]]
  /\ local' = [local EXCEPT ![p] = [NoLocals EXCEPT !.lockValue = local[p].lockValue]]
  /\ UNCHANGED <<history, call, storeVars, issued, overrun>>
\* ---------------------------------------------------------- summary cache
validateSummaryLanguage(summary, language) ==
  IF language = "en" THEN TRUE ELSE summary.korean

hasSubstantialContent(summary) == summary.substantial

MapSize(m) == Cardinality({l \in Languages : m[l].present})

\* as getAll, but every entry the store holds is returned as it is
getAllNoValidation(version, storeOk) ==
  [l \in Languages |->
     IF storeOk /\ cache[<<version, l>>].present
     THEN cache[<<version, l>>] ELSE NoSummary]

\* SummaryCache.getAll: the Map it returns, given whether mget succeeded
getAll(version, storeOk) ==
  [l \in Languages |->
     IF storeOk /\ cache[<<version, l>>].present
                /\ validateSummaryLanguage(cache[<<version, l>>], l)
     THEN cache[<<version, l>>] ELSE NoSummary]

\* SummaryCache.getAll: the store after its self-healing deletes
getAllStore(version, storeOk) ==
  [k \in Tags \X Languages |->
     IF storeOk /\ k[1] = version /\ cache[k].present
                /\ ~validateSummaryLanguage(cache[k], k[2])
     THEN NoSummary ELSE cache[k]]

\* as get, but a polluted entry is returned as it is
getNoValidation(version, language, getOk) ==
  IF getOk THEN cache[<<version, language>>] ELSE NoSummary

\* SummaryCache.get: what it returns (NoSummary for null), given whether
\* redis.get succeeded
get(version, language, getOk) ==
  IF getOk /\ cache[<<version, language>>].present
           /\ validateSummaryLanguage(cache[<<version, language>>], language)
  THEN cache[<<version, language>>] ELSE NoSummary

\* SummaryCache.get: the store after its self-healing delete, given whether
\* redis.get and redis.del succeeded
getStore(version, language, getOk, delOk) ==
  [k \in Tags \X Languages |->
     IF getOk /\ delOk /\ k = <<version, language>> /\ cache[k].present
              /\ ~validateSummaryLanguage(cache[k], language)
     THEN NoSummary ELSE cache[k]]

\* as cacheSet, but without the substantial-content check
cacheSetNoContentCheck(old, language, summary) ==
  IF ~validateSummaryLanguage(summary, language) THEN old ELSE summary

\* as cacheSet, but nothing is written
cacheSetNever(old, language, summary) == old

\* SummaryCache.set: the entry the store holds afterwards
cacheSet(old, language, summary) ==
  IF ~hasSubstantialContent(summary) THEN old
  ELSE IF ~validateSummaryLanguage(summary, language) THEN old
  ELSE summary

\* the summarizer did its job: a summary with content, in the language asked
IsGoodSummary(summary, language) ==
  /\ summary.present
  /\ summary.substantial
  /\ summary.korean = (language # "en")

\* what generateFn(language) can produce: a summary, or an exception
GenOutcomes(l) ==
  {s \in Summaries : l = "en" => s.korean = FALSE} \cup {NoSummary}

\* ------------------------------------------------------------ retry phase
RECURSIVE GroupByVersion(_)
\* failuresByVersion: a Map iterates in insertion order of its keys
GroupByVersion(seq) ==
  IF seq = <<>> THEN <<>>
  ELSE LET v == Head(seq).version IN
       SelectSeq(seq, LAMBDA f : f.version = v)
         \o GroupByVersion(SelectSeq(seq, LAMBDA f : f.version # v))

FailedTeams == {t \in Teams : failed[t] # NoRecord}

\* the orders in which the key scan of getFailedWorkspaces can list them
ScanOrders ==
  {o \in [1..Cardinality(FailedTeams) -> FailedTeams] :
     \A i, j \in DOMAIN o : i # j => o[i] # o[j]}

\* as addFailedWorkspace, but a team that has a record keeps it (SET NX)
addFailedWorkspaceKeepExisting(records, teamId, notification) ==
  IF records[teamId] # NoRecord THEN records
  ELSE [records EXCEPT ![teamId] = notification]

\* addFailedWorkspace: redis.set on the team's key, whatever it held
addFailedWorkspace(records, teamId, notification) ==
  [records EXCEPT ![teamId] = notification]

\* as removeFailedWorkspace, but every team's record goes
removeFailedWorkspaceAll(records, teamId) == [t \in Teams |-> NoRecord]

\* as removeFailedWorkspace, but the record stays
removeFailedWorkspaceNoOp(records, teamId) == records

\* removeFailedWorkspace: the failure records without the team's
removeFailedWorkspace(records, teamId) ==
  [records EXCEPT ![teamId] = NoRecord]

FailedNotification(t) ==
  [teamId |-> t, version |-> failed[t].version, retryCount |-> failed[t].retryCount]

\* summariesByLanguage.values().next().value: the first entry of the Map
FirstSummaryLanguage(m) ==
  IF m[SUPPORTED_LANGUAGES[1]].present
  THEN SUPPORTED_LANGUAGES[1] ELSE SUPPORTED_LANGUAGES[2]

\* as AfterRetry, but the version detection starts once one record or
\* group is handled
AfterRetryDetectFirst(rest) == "tag"

\* executeNotification: getLatestTag is called when
\* retryPreviouslyFailedNotifications has returned, which it does when no
\* failure is left to handle
AfterRetry(rest) == IF rest = <<>> THEN "tag" ELSE "retry"

\* as effectiveSummary, but without the fallback
effectiveSummaryNoFallback(language, summariesByLanguage) == language

\* retryPreviouslyFailedNotifications: the language of effectiveSummary, the
\* workspace's own when the Map has it, else that of the Map's first entry
effectiveSummary(language, summariesByLanguage) ==
  IF summariesByLanguage[language].present THEN language
  ELSE FirstSummaryLanguage(summariesByLanguage)

\* retryPreviouslyFailedNotifications: getFailedWorkspaces and the early return
RetryList(p) ==
  /\ pc[p] = "retry_list"
  /\ \E o \in ScanOrders :
       LET q == GroupByVersion([i \in DOMAIN o |-> FailedNotification(o[i])]) IN
       /\ local' = [local EXCEPT ![p].failedWorkspaces = q]
       /\ trace' = [trace EXCEPT ![p].hadFailures = (q # <<>>)]
       /\ Goto(p, IF q = <<>> THEN "tag" ELSE "retry_ws")
  /\ UNCHANGED <<history, call, storeVars, issued, overrun, faults>>

\* retryPreviouslyFailedNotifications: getActiveWorkspaces and workspaceMap
RetryWorkspaces(p) ==
  /\ pc[p] = "retry_ws"
  /\ local' = [local EXCEPT ![p].workspaceMap = Range(getActiveWorkspaces)]
  /\ Goto(p, "retry")
  /\ UNCHANGED <<history, call, storeVars, trace, issued, overrun, faults>>

\* the head of a version group: summaryCache.getAll(version), and, when no
\* summary is cached, the removeFailedWorkspace calls for the whole group,
\* the first exception of which is not caught
RetryGroup(p) ==
  /\ pc[p] = "retry"
  /\ local[p].failedWorkspaces # <<>>
  /\ Head(local[p].failedWorkspaces).version # local[p].version
  /\ \E storeOk \in BOOLEAN :
       LET v == Head(local[p].failedWorkspaces).version
           m == getAll(v, storeOk)
           failures == SelectSeq(local[p].failedWorkspaces,
                                 LAMBDA f : f.version = v)
           rest == SelectSeq(local[p].failedWorkspaces, LAMBDA f : f.version # v)
       IN
       /\ cache' = getAllStore(v, storeOk)
       /\ IF MapSize(m) = 0
          THEN \E removed \in 0..Len(failures) :
                 /\ Fault(Cost(~storeOk \/ removed < Len(failures)))
                 /\ failed' = [t \in Teams |->
                                 IF \E i \in 1..removed : failures[i].teamId = t
                                 THEN NoRecord ELSE failed[t]]
                 /\ IF removed = Len(failures)
                    THEN /\ local' = [local EXCEPT ![p].failedWorkspaces = rest]
                         /\ Goto(p, AfterRetry(rest))
                         /\ trace' = Did(p, {"retry_failures"})
                    ELSE /\ UNCHANGED local
                         /\ Goto(p, "release")
                         /\ trace' = [Did(p, IF removed > 0
                                             THEN {"retry_failures"} ELSE {})
                                        EXCEPT ![p].endedAt = "retry"]
          ELSE /\ Fault(Cost(~storeOk))
               /\ local' = [local EXCEPT ![p].version = v,
                                         ![p].retrySummaries = m]
               /\ UNCHANGED <<failed, pc, trace>>
  /\ UNCHANGED <<history, call, lock, lastCheckedVersion, lastNotificationTime, active,
                 issued, overrun>>

\* what one sendWorkspaceNotification call can do: return, throw, throw a
\* token-invalid error and deactivate the workspace, or throw a token-invalid
\* error while deactivateWorkspace fails too (caught and logged)
SendOutcomes == {"ok", "fail", "invalid", "invalid_kept"}

\* what the logs say of a sendWorkspaceNotification call: sent, failed,
\* token invalid and deactivated, token invalid and failed to deactivate
SendLog(o) == IF o = "fail" THEN "failed" ELSE o

\* as Deactivated, but a token-invalid error leaves the workspace active
DeactivatedNever(set, teamId, o) == set

\* sendWorkspaceNotification: the active set after the call
Deactivated(set, teamId, o) == IF o = "invalid" THEN set \ {teamId} ELSE set

\* as ExceededRetries, but with > for >=
ExceededRetriesOffByOne(f) == f.retryCount > MAX_RETRIES

\* retryPreviouslyFailedNotifications: failed.retryCount >= MAX_RETRIES
ExceededRetries(f) == f.retryCount >= MAX_RETRIES

\* as RetryRecord, but the record is written again as it was
RetryRecordNoIncrement(f) ==
  [version |-> f.version, retryCount |-> f.retryCount]

\* the record addFailedWorkspace writes after a failed retry
RetryRecord(f) == [version |-> f.version, retryCount |-> f.retryCount + 1]

\* one failure of the current group: give up, or retry the delivery; then
\* removeFailedWorkspace or addFailedWorkspace, whose exception is not caught
RetryOne(p) ==
  /\ pc[p] = "retry"
  /\ local[p].failedWorkspaces # <<>>
  /\ Head(local[p].failedWorkspaces).version = local[p].version
  /\ \E o \in SendOutcomes, storeOk \in BOOLEAN :
       LET f == Head(local[p].failedWorkspaces)
           rest == Tail(local[p].failedWorkspaces)
           attempt == ~ExceededRetries(f) /\ f.teamId \in local[p].workspaceMap
           log == IF ~attempt THEN "removed" ELSE SendLog(o)
           did == [Did(p, (IF attempt THEN {"retry_delivery"} ELSE {})
                          \cup (IF storeOk THEN {"retry_failures"} ELSE {})
                          \cup (IF attempt /\ o = "invalid"
                                THEN {"retry_registry"} ELSE {}))
                     EXCEPT ![p].retried[f.teamId] = log,
                            ![p].effective[f.teamId] =
                              IF attempt
                              THEN effectiveSummary(WorkspaceLanguage(f.teamId),
                                                    local[p].retrySummaries)
                              ELSE @]
       IN
       /\ ~attempt => o = "ok"
       /\ Fault(Cost(o # "ok" \/ ~storeOk))
       /\ history' =
            IF ~history.observing THEN history
            ELSE [history EXCEPT
                    !.received =
                      @ \cup (IF attempt /\ o = "ok"
                              THEN {<<f.teamId, f.version>>} ELSE {}),
                    !.retries[<<f.teamId, f.version>>] = @ + Cost(attempt),
                    !.sendFailures =
                      @ + Cost(storeOk /\ o \in {"fail", "invalid"})]
       /\ active' = IF attempt THEN Deactivated(active, f.teamId, o) ELSE active
       /\ IF storeOk
          THEN /\ failed' = IF ~attempt \/ o = "ok"
                          THEN removeFailedWorkspace(failed, f.teamId)
                          ELSE addFailedWorkspace(failed, f.teamId,
                                                  RetryRecord(f))
               /\ local' = [local EXCEPT ![p].failedWorkspaces = rest]
               /\ Goto(p, AfterRetry(rest))
               /\ trace' = did
          ELSE /\ UNCHANGED <<failed, local>>
               /\ Goto(p, "release")
               /\ trace' = [did EXCEPT ![p].endedAt = "retry"]
  /\ UNCHANGED <<call, lock, lastCheckedVersion, lastNotificationTime, cache,
                 issued, overrun>>

\* ------------------------------------------------------------- main phase
\* executeNotification: getLatestTag returns the first tag the upstream
\* repository lists at that moment, or null when it has none
GetLatestTag(p) ==
  /\ pc[p] = "tag"
  /\ \E tag \in Tags \cup {Null} :
       /\ local' = [local EXCEPT ![p].latestTag = tag]
       /\ Goto(p, IF tag = Null THEN "release" ELSE "readver")
       /\ trace' = [trace EXCEPT ![p].exit = IF tag = Null THEN "no_tags" ELSE @]
  /\ UNCHANGED <<history, call, storeVars, issued, overrun, faults>>

\* as GetLastCheckedVersion, but the version is advanced as soon as it is
\* detected as new
GetLastCheckedVersionEager(p) ==
  /\ pc[p] = "readver"
  /\ local' = [local EXCEPT ![p].lastCheckedVersion = lastCheckedVersion]
  /\ IF isNewerVersion(local[p].latestTag, lastCheckedVersion)
     THEN /\ Goto(p, "workspaces")
          /\ lastCheckedVersion' = local[p].latestTag
          /\ trace' = Did(p, {"version"})
     ELSE /\ Goto(p, "release")
          /\ trace' = [trace EXCEPT ![p].exit = "no_new_version"]
          /\ UNCHANGED lastCheckedVersion
  /\ UNCHANGED <<history, call, lock, lastNotificationTime, cache, failed, active, issued,
                 overrun, faults>>

\* executeNotification: getLastCheckedVersion and the isNewerVersion gate
GetLastCheckedVersion(p) ==
  /\ pc[p] = "readver"
  /\ local' = [local EXCEPT ![p].lastCheckedVersion = lastCheckedVersion]
  /\ IF isNewerVersion(local[p].latestTag, lastCheckedVersion)
     THEN /\ Goto(p, "workspaces")
          /\ UNCHANGED trace
     ELSE /\ Goto(p, "release")
          /\ trace' = [trace EXCEPT ![p].exit = "no_new_version"]
  /\ UNCHANGED <<history, call, storeVars, issued, overrun, faults>>

\* as AfterWorkspaces, but without the exit on an empty list
AfterWorkspacesNoCheck(workspaces) == "diff"

\* executeNotification: where control goes with the list of active
\* workspaces
AfterWorkspaces(workspaces) == IF Len(workspaces) = 0 THEN "setver" ELSE "diff"

\* executeNotification: getActiveWorkspaces and the zero-recipient exit
GetWorkspaces(p) ==
  /\ pc[p] = "workspaces"
  /\ local' = [local EXCEPT ![p].workspaces = getActiveWorkspaces]
  /\ Goto(p, AfterWorkspaces(getActiveWorkspaces))
  /\ trace' = [trace EXCEPT ![p].exit =
                 IF getActiveWorkspaces = <<>> THEN "no_workspaces" ELSE @]
  /\ UNCHANGED <<history, call, storeVars, issued, overrun, faults>>

\* as AfterDiff, but a version without relevant changes ends the pass
\* without the write of the version
AfterDiffNoAdvance(hasPromptOrFlagChanges, hasCliChanges) ==
  IF ~hasPromptOrFlagChanges /\ ~hasCliChanges THEN "release" ELSE "generate"

\* as AfterDiff, but without the exit when nothing relevant changed
AfterDiffNoCheck(hasPromptOrFlagChanges, hasCliChanges) == "generate"

\* executeNotification: where control goes with the diff and the CLI
\* changelog
AfterDiff(hasPromptOrFlagChanges, hasCliChanges) ==
  IF ~hasPromptOrFlagChanges /\ ~hasCliChanges THEN "setver" ELSE "generate"

\* as getCliChangelogResult, but the catch block assigns what a fetch
\* that found items returns
getCliChangelogResultNoFallback(cli) ==
  [changes |-> "items", compareUrl |-> "url"]

\* executeNotification: cliResult after the try statement around
\* getCliChangelog, whose catch block assigns { changes: [], compareUrl: "" }
getCliChangelogResult(cli) ==
  IF cli = "threw" THEN [changes |-> "empty", compareUrl |-> ""]
  ELSE IF cli = "empty" THEN [changes |-> "empty", compareUrl |-> "url"]
  ELSE [changes |-> "items", compareUrl |-> "url"]

\* executeNotification: getChangelogDiff, getCliChangelog (whose failure is
\* caught and counts as no CLI changes) and the no-relevant-changes exit
FetchDiff(p) ==
  /\ pc[p] = "diff"
  /\ \E files \in {"none", "some"}, cli \in {"changes", "empty", "threw"} :
       LET cliResult == getCliChangelogResult(cli)
           hasPromptOrFlagChanges == files = "some"
           hasCliChanges == cliResult.changes = "items"
       IN
       /\ Fault(Cost(cli = "threw"))
       /\ Goto(p, AfterDiff(hasPromptOrFlagChanges, hasCliChanges))
       /\ local' = [local EXCEPT ![p].diff = [files |-> files],
                                 ![p].cliResult = cliResult]
       /\ trace' = [Did(p, {"diff"}) EXCEPT ![p].exit =
                      IF ~hasPromptOrFlagChanges /\ ~hasCliChanges
                      THEN "no_changes" ELSE @]
  /\ UNCHANGED <<history, call, storeVars, issued, overrun>>

\* as AfterPregenerate, but without the check of the Map's size
AfterPregenerateNoCheck(summariesByLanguage) == "deliver"

\* as AfterPregenerate, but a missing language ends the pass like an empty
\* Map
AfterPregenerateAllLanguages(summariesByLanguage) ==
  IF MapSize(summariesByLanguage) < Len(SUPPORTED_LANGUAGES)
  THEN "release" ELSE "deliver"

\* executeNotification: where control goes with the Map that
\* pregenerateSummaries returned
AfterPregenerate(summariesByLanguage) ==
  IF MapSize(summariesByLanguage) = 0 THEN "release" ELSE "deliver"

\* as pregenerateResults, but what the generator returned is not checked
pregenerateResultsNoCheck(existing, gen, setError) ==
  [l \in Languages |->
     IF existing[l].present THEN existing[l]
     ELSE IF gen[l].present /\ l \notin setError
     THEN gen[l] ELSE NoSummary]

\* as pregenerateResults, but a generator that throws fails the whole call
\* (the generate promises have no catch of their own)
pregenerateResultsAllOrNothing(existing, gen, setError) ==
  [l \in Languages |->
     IF \E k \in Languages : ~existing[k].present /\ ~gen[k].present
     THEN NoSummary
     ELSE IF existing[l].present THEN existing[l]
     ELSE IF l \notin setError /\ validateSummaryLanguage(gen[l], l)
     THEN gen[l] ELSE NoSummary]

\* SummaryCache.pregenerate: the Map it returns, given the cached entries,
\* what generateFn produced for each missing language and the languages
\* whose set() call was rejected by the store
pregenerateResults(existing, gen, setError) ==
  [l \in Languages |->
     IF existing[l].present THEN existing[l]
     ELSE IF /\ gen[l].present
             /\ l \notin setError
             /\ validateSummaryLanguage(gen[l], l)
     THEN gen[l] ELSE NoSummary]

\* pregenerateSummaries: summaryCache.pregenerate(version, generateFn) and
\* the exit when the Map is empty
Pregenerate(p) ==
  /\ pc[p] = "generate"
  /\ \E getOk \in BOOLEAN, setError \in SUBSET Languages :
     \E gen \in [Languages -> Summaries \cup {NoSummary}] :
       LET v == local[p].latestTag
           existing == getAll(v, getOk)
           healed == getAllStore(v, getOk)
           missing == {l \in Languages : ~existing[l].present}
           \* the languages whose set() reaches the store
           stored == {l \in missing : /\ gen[l].present
                                      /\ hasSubstantialContent(gen[l])
                                      /\ validateSummaryLanguage(gen[l], l)}
           m == pregenerateResults(existing, gen, setError)
       IN
       /\ \A l \in Languages : gen[l] \in GenOutcomes(l)
       /\ \A l \in Languages \ missing : gen[l] = NoSummary
       /\ setError \subseteq stored
       /\ Fault(Cost(\/ ~getOk
                       \/ setError # {}
                       \/ \E l \in missing : ~IsGoodSummary(gen[l], l)))
       /\ cache' = [k \in Tags \X Languages |->
                      IF /\ k[1] = v
                         /\ k[2] \in missing \ setError
                         /\ gen[k[2]].present
                      THEN cacheSet(healed[k], k[2], gen[k[2]])
                      ELSE healed[k]]
       \* of diff the pass has read whether it has files; what is left of it
       \* is text for the summarizer and the message
       /\ local' = [local EXCEPT
                      ![p].summariesByLanguage = m,
                      ![p].diff = NoDiff,
                      ![p].generated =
                        [l \in Languages |->
                           IF l \notin missing THEN "cached"
                           ELSE IF ~gen[l].present THEN "threw"
                           ELSE IF ~validateSummaryLanguage(gen[l], l) THEN "rejected"
                           ELSE IF l \in setError THEN "unsaved"
                           ELSE IF ~hasSubstantialContent(gen[l]) THEN "thin"
                           ELSE "ok"]]
       /\ trace' = [Did(p, (IF missing # {} THEN {"summarizer"} ELSE {})
                           \cup (IF cache' # cache THEN {"cache"} ELSE {}))
                      EXCEPT ![p].exit = IF MapSize(m) = 0 THEN "no_summaries" ELSE @]
       /\ Goto(p, AfterPregenerate(m))
  /\ UNCHANGED <<history, call, lock, lastCheckedVersion, lastNotificationTime, failed,
                 active, issued, overrun>>

\* sendNotificationToWorkspaces: the processor of one workspace, given what
\* its sendWorkspaceNotification call does
processor(workspace, summariesByLanguage, o) ==
  IF ~summariesByLanguage[WorkspaceLanguage(workspace)].present
  THEN [teamId |-> workspace, success |-> FALSE, error |-> "no_summary"]
  ELSE IF o = "ok"
  THEN [teamId |-> workspace, success |-> TRUE, error |-> "none"]
  ELSE [teamId |-> workspace, success |-> FALSE, error |-> "threw"]

\* the results of a batch up to and including its first failure
RECURSIVE UpToFirstFailure(_)
UpToFirstFailure(batchResults) ==
  IF batchResults = <<>> THEN <<>>
  ELSE IF ~Head(batchResults).success THEN <<Head(batchResults)>>
  ELSE <<Head(batchResults)>> \o UpToFirstFailure(Tail(batchResults))

\* as processInBatches, but a failure ends the fan-out
RECURSIVE processInBatchesShortCircuit(_, _, _)
processInBatchesShortCircuit(items, processed, concurrency) ==
  UpToFirstFailure([i \in 1..Len(items) |-> processed[items[i]]])

\* processInBatches: the batches one after the other, each settled as a
\* whole, the results in the order of the items
RECURSIVE processInBatches(_, _, _)
processInBatches(items, processed, concurrency) ==
  IF items = <<>> THEN <<>>
  ELSE LET n == IF Len(items) < concurrency THEN Len(items) ELSE concurrency
           batch == SubSeq(items, 1, n)
           batchResults == [i \in 1..n |-> processed[batch[i]]]
       IN batchResults
            \o processInBatches(SubSeq(items, n + 1, Len(items)), processed,
                                concurrency)

\* sendNotificationToWorkspaces: one result per workspace
Deliver(p) ==
  /\ pc[p] = "deliver"
  /\ \E o \in [Range(local[p].workspaces) -> SendOutcomes] :
       LET listed == Range(local[p].workspaces)
           hasSummary(t) == local[p].summariesByLanguage[WorkspaceLanguage(t)].present
           processed == [t \in listed |->
                           processor(t, local[p].summariesByLanguage, o[t])]
           invalid == {t \in listed : hasSummary(t) /\ o[t] = "invalid"}
       IN
       /\ \A t \in listed : ~hasSummary(t) => o[t] = "fail"
       /\ Fault(Cost(\E t \in listed : hasSummary(t) /\ o[t] # "ok"))
       /\ history' =
            IF ~history.observing THEN history
            ELSE [history EXCEPT
                    !.received =
                      @ \cup {<<t, local[p].latestTag>> : t \in
                                {u \in listed : hasSummary(u) /\ o[u] = "ok"}},
                    !.sendFailures =
                      @ + Cost(/\ \E t \in listed :
                                    hasSummary(t) /\ o[t] # "ok"
                               /\ \A t \in listed :
                                    hasSummary(t) => o[t] # "invalid_kept")]
       \* workspaces, summariesByLanguage and cliResult are not read again
       /\ local' = [local EXCEPT
                      ![p].results = processInBatches(local[p].workspaces,
                                                      processed,
                                                      CONCURRENCY_LIMIT),
                      ![p].workspaces = <<>>,
                      ![p].summariesByLanguage = NoSummaries,
                      ![p].generated = NoLocals.generated,
                      ![p].cliResult = NoCliResult]
       /\ active' = {t \in active :
                      t \in listed /\ hasSummary(t) =>
                        t \in Deactivated(active, t, o[t])}
       /\ trace' = [Did(p, (IF \E t \in listed : hasSummary(t)
                            THEN {"delivery"} ELSE {})
                           \cup (IF invalid # {} THEN {"registry"} ELSE {}))
                      EXCEPT ![p].sent =
                        [t \in Teams |->
                           IF t \notin listed THEN "none"
                           ELSE IF ~hasSummary(t) THEN "skipped"
                           ELSE SendLog(o[t])]]
  /\ Goto(p, "record")
  /\ UNCHANGED <<call, lock, lastCheckedVersion, lastNotificationTime, cache,
                 failed, issued, overrun>>

\* the record addFailedWorkspace writes for a failed result
FailureRecord(version) == [version |-> version, retryCount |-> 0]

\* executeNotification: addFailedWorkspace for every failed result and
\* removeFailedWorkspace for every successful one, store errors swallowed
RecordOutcomes(p) ==
  /\ pc[p] = "record"
  /\ LET results == local[p].results
         failedResults == {results[i].teamId : i \in {j \in DOMAIN results : ~results[j].success}}
         succeeded == {results[i].teamId : i \in {j \in DOMAIN results : results[j].success}}
     IN
     \E addError \in SUBSET failedResults, removeError \in SUBSET succeeded :
       /\ Fault(Cost(addError # {} \/ removeError # {}))
       /\ failed' = [t \in Teams |->
                       IF t \in failedResults \ addError
                       THEN addFailedWorkspace(failed, t,
                              FailureRecord(local[p].latestTag))[t]
                       ELSE IF t \in succeeded \ removeError
                       THEN removeFailedWorkspace(failed, t)[t]
                       ELSE failed[t]]
       /\ trace' = Did(p, IF failed' # failed THEN {"failures"} ELSE {})
  \* results is not read again
  /\ local' = [local EXCEPT ![p].results = NoResults, ![p].delivered = TRUE]
  /\ Goto(p, "setver")
  /\ UNCHANGED <<history, call, lock, lastCheckedVersion, lastNotificationTime, cache,
                 active, issued, overrun>>

\* setLastCheckedVersion(latestTag.name), at any of its three call sites
SetLastCheckedVersion(p) ==
  /\ pc[p] = "setver"
  /\ lastCheckedVersion' = local[p].latestTag
  /\ trace' = Did(p, {"version"})
  /\ Goto(p, IF local[p].delivered THEN "setnotif" ELSE "release")
  /\ UNCHANGED <<history, call, lock, lastNotificationTime, cache, failed, active, local,
                 issued, overrun, faults>>

\* setLastNotificationTime()
SetLastNotificationTime(p) ==
  /\ pc[p] = "setnotif"
  /\ lastNotificationTime' = trace[p].run
  /\ trace' = [Did(p, {"notiftime"}) EXCEPT ![p].exit = "completed"]
  /\ Goto(p, "release")
  /\ UNCHANGED <<history, call, lock, lastCheckedVersion, cache, failed, active, local,
                 issued, overrun, faults>>

\* ---------------------------------------------------------- specification
Next ==
  \/ ExpireLock
  \/ \E p \in Procs : Invoke(p)
  \/ \E p \in Procs : RetryList(p)
  \/ \E p \in Procs : RetryWorkspaces(p)
  \/ \E p \in Procs : RetryGroup(p)
  \/ \E p \in Procs : RetryOne(p)
  \/ \E p \in Procs : GetLatestTag(p)
  \/ \E p \in Procs : GetLastCheckedVersion(p)
  \/ \E p \in Procs : GetWorkspaces(p)
  \/ \E p \in Procs : FetchDiff(p)
  \/ \E p \in Procs : Pregenerate(p)
  \/ \E p \in Procs : Deliver(p)
  \/ \E p \in Procs : RecordOutcomes(p)
  \/ \E p \in Procs : SetLastCheckedVersion(p)
  \/ \E p \in Procs : SetLastNotificationTime(p)
  \/ \E p \in Procs : Release(p)
  \/ \E p \in Procs : BodyThrows(p)
  \/ \E p \in Procs : Crash(p)

Spec == Init /\ [][Next]_vars

\* a store as earlier passes can leave it: the older tag was processed, its
\* summaries are cached, and the delivery to T1 has failed and was retried
\* in vain until its record reached retryCount 2
InitRetry ==
  /\ lock = NoLock
  /\ lastCheckedVersion = TagOld
  /\ lastNotificationTime = 0
  /\ cache = [k \in Tags \X Languages |->
                IF k[1] = TagOld
                THEN [substantial |-> TRUE, korean |-> (k[2] # "en"),
                      present |-> TRUE]
                ELSE NoSummary]
  /\ failed = [t \in Teams |->
                 IF t = "T1"
                 THEN [version |-> TagOld, retryCount |-> MAX_RETRIES - 1]
                 ELSE NoRecord]
  /\ active = Teams
  /\ pc = [p \in Procs |-> "idle"]
  /\ local = [p \in Procs |-> NoLocals]
  /\ trace = [p \in Procs |-> NoTrace]
  /\ issued = 0
  /\ overrun = FALSE
  /\ faults = 0
  \* the pass that left the failure record delivered to the other team, and
  \* the retries of the record were counted
  /\ history = [NoHistory EXCEPT !.observing = TRUE,
                                !.received = {<<"T2", TagOld>>},
                                !.retries[<<"T1", TagOld>>] = MAX_RETRIES - 1]
  /\ call = NoCall

RetrySpec == InitRetry /\ [][Next]_vars

\* the same store, seen by the last invocation the bound allows, in which two
\* calls can fail: a delivery and, after it, a call to the store
InitOnePass ==
  /\ lock = NoLock
  /\ lastCheckedVersion = TagOld
  /\ lastNotificationTime = 0
  /\ cache = [k \in Tags \X Languages |->
                IF k[1] = TagOld
                THEN [substantial |-> TRUE, korean |-> (k[2] # "en"),
                      present |-> TRUE]
                ELSE NoSummary]
  /\ failed = [t \in Teams |->
                 IF t = "T1"
                 THEN [version |-> TagOld, retryCount |-> MAX_RETRIES - 1]
                 ELSE NoRecord]
  /\ active = Teams
  /\ pc = [p \in Procs |-> "idle"]
  /\ local = [p \in Procs |-> NoLocals]
  /\ trace = [p \in Procs |-> NoTrace]
  /\ issued = MaxInvocations - 1
  /\ overrun = FALSE
  /\ faults = MaxFaults - 2
  /\ history = NoHistory
  /\ call = NoCall

OnePassSpec == InitOnePass /\ [][Next]_vars

\* a step of invocation p once it holds the lock: the awaited call it stands
\* at returns or throws, and the code up to the next await runs
PassStep(p) ==
  \/ RetryList(p)
  \/ RetryWorkspaces(p)
  \/ RetryGroup(p)
  \/ RetryOne(p)
  \/ GetLatestTag(p)
  \/ GetLastCheckedVersion(p)
  \/ GetWorkspaces(p)
  \/ FetchDiff(p)
  \/ Pregenerate(p)
  \/ Deliver(p)
  \/ RecordOutcomes(p)
  \/ SetLastCheckedVersion(p)
  \/ SetLastNotificationTime(p)
  \/ Release(p)
  \/ BodyThrows(p)

\* one pass in which every awaited call eventually returns or throws
TerminationSpec == OnePassSpec /\ \A p \in Procs : WF_vars(PassStep(p))

\* a store in which failure records have outlived their summaries: the older
\* tag was delivered with a summary the cache did not take, what the cache
\* holds for it is an entry in the wrong language, T1 has been retried once
\* and T2, retried three times, has been deactivated
InitGiveUp ==
  /\ lock = NoLock
  /\ lastCheckedVersion = TagOld
  /\ lastNotificationTime = 0
  /\ cache = [k \in Tags \X Languages |->
                IF k = <<TagOld, "ko">>
                THEN [substantial |-> TRUE, korean |-> FALSE, present |-> TRUE]
                ELSE NoSummary]
  /\ failed = [t \in Teams |->
                 [version |-> TagOld,
                  retryCount |-> IF t = "T1" THEN 1 ELSE MAX_RETRIES]]
  /\ active = {"T1"}
  /\ pc = [p \in Procs |-> "idle"]
  /\ local = [p \in Procs |-> NoLocals]
  /\ trace = [p \in Procs |-> NoTrace]
  /\ issued = 0
  /\ overrun = FALSE
  /\ faults = 0
  /\ history = NoHistory
  /\ call = NoCall

GiveUpSpec == InitGiveUp /\ [][Next]_vars

\* the store deletes a key that has an expiry once the expiry is reached
LiveSpec == Spec /\ WF_vars(ExpireLock)

\* ------------------------------------------------- helper calls, one by one
\* version strings a tag name or a stored version can be: the literals of
\* the comparison, names with a prefix, a two-digit component, and names
\* the pattern does not match.  No tag name is empty: the empty string is
\* falsy as null is, and isNewerVersion takes both for "nothing stored"
V123 == <<"1", ".", "2", ".", "3">>
V124 == <<"1", ".", "2", ".", "4">>
V129 == <<"1", ".", "2", ".", "9">>
V130 == <<"1", ".", "3", ".", "0">>
V199 == <<"1", ".", "9", ".", "9">>
V200 == <<"2", ".", "0", ".", "0">>
VLatest == <<"l", "a", "t", "e", "s", "t">>
VTwoParts == <<"v", "1", ".", "2">>
VersionStrings ==
  {V123, V124, V129, V130, V199, V200, TagOld, TagNew, VLatest, VTwoParts}

\* the calls isNewerVersion(current, last) that can be made
IsNewerVersionCalls ==
  [fn : {"isNewerVersion"}, current : VersionStrings,
   last : VersionStrings \cup {Null}, done : {FALSE}, result : {FALSE}]

\* isNewerVersion(current, last) returns
CallIsNewerVersion ==
  /\ call.fn = "isNewerVersion"
  /\ ~call.done
  /\ call' = [call EXCEPT !.done = TRUE,
                          !.result = isNewerVersion(call.current, call.last)]
  /\ UNCHANGED <<history, storeVars, pc, local, trace, issued, overrun, faults>>

\* the calls get(version, language) that can be made, with what the store
\* does to redis.get and redis.del
GetCalls ==
  [fn : {"get"}, version : Tags, language : Languages, getOk : BOOLEAN,
   delOk : BOOLEAN, done : {FALSE}, cached : {NoSummary},
   found : {NoSummary}]

\* the calls getAll(version) that can be made, with what the store does to
\* redis.mget and redis.del
GetAllCalls ==
  [fn : {"getAll"}, version : Tags, getOk : BOOLEAN, delOk : BOOLEAN,
   done : {FALSE}, values : {NoSummaries}, results : {NoSummaries}]

\* what the store can hold when entries were written past set(): anything
\* under the keys of the new version, nothing or a good pair under the old
CallCaches ==
  {c \in [Tags \X Languages -> Summaries \cup {NoSummary}] :
     \/ \A l \in Languages : c[<<TagOld, l>>] = NoSummary
     \/ \A l \in Languages : IsGoodSummary(c[<<TagOld, l>>], l)}

\* get(version, language) returns
CallGet ==
  /\ call.fn = "get"
  /\ ~call.done
  /\ call' = [call EXCEPT
       !.done = TRUE,
       !.cached = IF call.getOk THEN cache[<<call.version, call.language>>]
                  ELSE NoSummary,
       !.found = get(call.version, call.language, call.getOk)]
  /\ cache' = getStore(call.version, call.language, call.getOk, call.delOk)
  /\ UNCHANGED <<history, lock, lastCheckedVersion, lastNotificationTime, failed,
                 active, pc, local, trace, issued, overrun, faults>>

\* getAll(version) returns: "en" is validated before "ko" and always
\* passes, so a redis.del that rejects ends the loop with the result whole
CallGetAll ==
  /\ call.fn = "getAll"
  /\ ~call.done
  /\ call' = [call EXCEPT
       !.done = TRUE,
       !.values = [l \in Languages |->
                    IF call.getOk THEN cache[<<call.version, l>>]
                    ELSE NoSummary],
       !.results = getAll(call.version, call.getOk)]
  /\ cache' = getAllStore(call.version, call.getOk /\ call.delOk)
  /\ UNCHANGED <<history, lock, lastCheckedVersion, lastNotificationTime, failed,
                 active, pc, local, trace, issued, overrun, faults>>

\* the calls pregenerate(version, generateFn) for the new version: whether
\* mget answers, what generateFn returns or throws for each language, and
\* the languages whose redis.set the store rejects; asked holds the
\* languages generateFn is called for
PregenerateCalls ==
  [fn : {"pregenerate"}, version : {TagNew}, getOk : BOOLEAN,
   gen : [Languages -> Summaries \cup {NoSummary}],
   setError : SUBSET Languages, done : {FALSE}, asked : {{}},
   results : {NoSummaries}]

\* pregenerate(version, generateFn) returns
CallPregenerate ==
  /\ call.fn = "pregenerate"
  /\ ~call.done
  /\ LET v == call.version
         existing == getAll(v, call.getOk)
         healed == getAllStore(v, call.getOk)
         missing == {l \in Languages : ~existing[l].present}
         \* the languages whose redis.set throws
         thrown == {l \in missing \cap call.setError :
                     /\ call.gen[l].present
                     /\ hasSubstantialContent(call.gen[l])
                     /\ validateSummaryLanguage(call.gen[l], l)}
     IN
     /\ call' = [call EXCEPT
          !.done = TRUE,
          !.asked = missing,
          !.results = pregenerateResults(existing, call.gen, thrown)]
     /\ cache' = [k \in Tags \X Languages |->
                    IF /\ k[1] = v
                       /\ k[2] \in missing \ thrown
                       /\ call.gen[k[2]].present
                    THEN cacheSet(healed[k], k[2], call.gen[k[2]])
                    ELSE healed[k]]
  /\ UNCHANGED <<history, lock, lastCheckedVersion, lastNotificationTime, failed,
                 active, pc, local, trace, issued, overrun, faults>>

\* ----------------------------------- sendWorkspaceNotification, step by step
\* a ChangeSummary, as far as the thread replies look at it: which of its
\* lists have items
ThreadSummaries ==
  [cliChanges : BOOLEAN, promptChanges : BOOLEAN,
   flagChanges : [added : BOOLEAN, removed : BOOLEAN, modified : BOOLEAN]]

hasFlags(summary) ==
  \/ summary.flagChanges.added
  \/ summary.flagChanges.removed
  \/ summary.flagChanges.modified

\* the condition of the if statement in front of each reply
HasCategory(summary, category) ==
  CASE category = "cli" -> summary.cliChanges
    [] category = "flag" -> hasFlags(summary)
    [] category = "prompt" -> summary.promptChanges

\* the statement that follows the reply of the category
AfterReply(category) ==
  CASE category = "cli" -> "flag"
    [] category = "flag" -> "prompt"
    [] category = "prompt" -> "returned"

\* as AfterMain, but without the check of mainResult.ts
AfterMainNoCheck(mainResult) == IF mainResult = "threw" THEN "threw" ELSE "cli"

\* where the main post leaves the delivery: postMessage threw, or returned
\* a response without ts, or returned the thread timestamp
AfterMain(mainResult) == IF mainResult = "ts" THEN "cli" ELSE "threw"

\* the calls sendWorkspaceNotification(workspace, message) that can be made
SendCalls ==
  [fn : {"sendWorkspaceNotification"}, summary : ThreadSummaries,
   at : {"main"}, mainResult : {"pending"}, posts : {<<>>}]

\* postMessage(client, channelId, mainBlocks): the message is posted and
\* the response has ts, or has none, or the call throws
PostMain ==
  /\ call.fn = "sendWorkspaceNotification"
  /\ call.at = "main"
  /\ \E r \in {"ts", "no_ts", "threw"} :
       call' = [call EXCEPT
         !.mainResult = r,
         !.posts = IF r = "threw" THEN @ ELSE Append(@, "main"),
         !.at = AfterMain(r)]
  /\ UNCHANGED <<history, storeVars, pc, local, trace, issued, overrun, faults>>

\* the reply of one category: skipped when the category has no items,
\* else posted in the thread after the delay, unless postMessage throws
PostReply ==
  /\ call.fn = "sendWorkspaceNotification"
  /\ call.at \in {"cli", "flag", "prompt"}
  /\ IF ~HasCategory(call.summary, call.at)
     THEN call' = [call EXCEPT !.at = AfterReply(call.at)]
     ELSE \/ call' = [call EXCEPT !.posts = Append(@, call.at),
                                  !.at = AfterReply(call.at)]
          \/ call' = [call EXCEPT !.at = "threw"]
  /\ UNCHANGED <<history, storeVars, pc, local, trace, issued, overrun, faults>>

\* ------------------------------------------------------ withRetry, step by step
DEFAULT_OPTIONS ==
  [maxAttempts |-> 3, baseDelayMs |-> 1000, maxDelayMs |-> 30000]

\* { ...DEFAULT_OPTIONS, ...options }: the fields options has win
MergeOptions(options) ==
  [f \in DOMAIN DEFAULT_OPTIONS |->
     IF f \in DOMAIN options THEN options[f] ELSE DEFAULT_OPTIONS[f]]

\* the options a caller passes: none, or some of the three fields
RetryOptions ==
  {<<>>}
    \cup [maxAttempts : 1..MaxAttempts]
    \cup [maxAttempts : 1..MaxAttempts, baseDelayMs : {2000, 20000}]
    \cup [maxAttempts : 1..MaxAttempts, baseDelayMs : {2000, 20000},
          maxDelayMs : {1500}]

\* Math.random() * 0.25, in hundredths
Jitters == {0, 10, 24}

\* as calculateDelay, but without the cap
calculateDelayUncapped(attempt, baseDelayMs, maxDelayMs, jitter) ==
  (baseDelayMs * 2 ^ attempt * (100 + jitter)) \div 100

\* calculateDelay: exponential backoff with jitter, capped by maxDelayMs
calculateDelay(attempt, baseDelayMs, maxDelayMs, jitter) ==
  LET exponentialDelay == baseDelayMs * 2 ^ attempt
      delay == (exponentialDelay * (100 + jitter)) \div 100
  IN IF delay < maxDelayMs THEN delay ELSE maxDelayMs

\* the calls withRetry(fn, options) that can be made
RetryCalls ==
  [fn : {"withRetry"}, options : RetryOptions, attempt : {0},
   at : {"loop"}, calls : {0}, waits : {<<>>}, lastError : {"none"},
   thrown : {"none"}]

\* one iteration of the loop: fn() returns, or throws an error that
\* shouldRetry takes for transient or not; the error is thrown on when it
\* is not transient or the attempt is the last, else the loop sleeps
RetryAttempt ==
  /\ call.fn = "withRetry"
  /\ call.at = "loop"
  /\ LET opts == MergeOptions(call.options) IN
     IF call.attempt >= opts.maxAttempts
     THEN call' = [call EXCEPT !.at = "threw", !.thrown = call.lastError]
     ELSE \E r \in {"ok", "transient", "permanent"} : \E jitter \in Jitters :
       LET isLastAttempt == call.attempt = opts.maxAttempts - 1 IN
       call' =
         IF r = "ok"
         THEN [call EXCEPT !.calls = @ + 1, !.at = "returned"]
         ELSE IF isLastAttempt \/ r = "permanent"
         THEN [call EXCEPT !.calls = @ + 1, !.lastError = r,
                           !.at = "threw", !.thrown = r]
         ELSE [call EXCEPT
                 !.calls = @ + 1, !.lastError = r,
                 !.attempt = @ + 1,
                 !.waits = Append(@, calculateDelay(call.attempt,
                                                    opts.baseDelayMs,
                                                    opts.maxDelayMs, jitter))]
  /\ UNCHANGED <<history, storeVars, pc, local, trace, issued, overrun, faults>>

\* ------------------------------------------------ generateSummary, step by step
\* as AfterResponse, but the second response is returned unchecked
AfterResponseNoSecondCheck(at, parsed, language) ==
  IF at = "second" \/ validateSummaryLanguage(parsed, language)
  THEN "returned" ELSE "second"

\* generateSummary: where control goes with the parsed response of the
\* first request and of the second
AfterResponse(at, parsed, language) ==
  IF validateSummaryLanguage(parsed, language) THEN "returned"
  ELSE IF at = "first" THEN "second"
  ELSE "threw"

\* the calls generateSummary(apiKey, language, diff, cliChanges) that can
\* be made
GenerateCalls ==
  [fn : {"generateSummary"}, language : Languages, at : {"first"},
   requests : {<<>>}, returned : {NoSummary}]

\* one request to the summarizer, the plain one or the reinforced one:
\* withRetry throws, or the response has no usable tool input, or it is
\* parsed and checked for the language
SummarizerRequest ==
  /\ call.fn = "generateSummary"
  /\ call.at \in {"first", "second"}
  /\ \E parsed \in Summaries \cup {NoSummary} :
       call' =
         IF ~parsed.present
         THEN [call EXCEPT !.requests = Append(@, call.at), !.at = "threw"]
         ELSE LET next == AfterResponse(call.at, parsed, call.language) IN
           [call EXCEPT
              !.requests = Append(@, call.at),
              !.at = next,
              !.returned = IF next = "returned" THEN parsed ELSE @]
  /\ UNCHANGED <<history, storeVars, pc, local, trace, issued, overrun, faults>>

\* the state before one helper call: nothing is running
InitCall ==
  /\ lock = NoLock
  /\ lastCheckedVersion = Null
  /\ lastNotificationTime = 0
  /\ failed = [t \in Teams |-> NoRecord]
  /\ active = Teams
  /\ pc = [p \in Procs |-> "idle"]
  /\ local = [p \in Procs |-> NoLocals]
  /\ trace = [p \in Procs |-> NoTrace]
  /\ issued = 0
  /\ overrun = FALSE
  /\ faults = 0
  /\ history = NoHistory
  /\ \/ /\ call \in IsNewerVersionCalls
        /\ cache = [k \in Tags \X Languages |-> NoSummary]
     \/ /\ call \in GetCalls \cup GetAllCalls \cup PregenerateCalls
        /\ cache \in CallCaches
     \/ /\ call \in SendCalls \cup RetryCalls \cup GenerateCalls
        /\ cache = [k \in Tags \X Languages |-> NoSummary]

NextCall ==
  \/ CallIsNewerVersion
  \/ CallGet
  \/ CallGetAll
  \/ CallPregenerate
  \/ PostMain
  \/ PostReply
  \/ RetryAttempt
  \/ SummarizerRequest

CallSpec == InitCall /\ [][NextCall]_vars

\* ------------------------------------------- processInBatches, step by step
\* the items are the positions 1..n of the workspace list
Min(a, b) == IF a < b THEN a ELSE b

\* items.slice(i, i + concurrency): the positions of the batch
slice(n, i, concurrency) == (i + 1)..Min(i + concurrency, n)

\* as allSettled, but the first promise that settles ends the wait
anySettled(status, batch) ==
  \E j \in batch : status[j] \in {"sent", "failed"}

\* Promise.allSettled: every promise of the batch has settled
allSettled(status, batch) ==
  \A j \in batch : status[j] \in {"sent", "failed"}

\* the calls processInBatches(workspaces, processor, CONCURRENCY_LIMIT)
\* that can be made: a list of up to MaxItems workspaces
BatchCalls ==
  {[fn |-> "processInBatches", n |-> n, i |-> 0, at |-> "loop",
    status |-> [j \in 1..n |-> "waiting"], started |-> <<>>,
    results |-> <<>>, done |-> FALSE] : n \in 0..MaxItems}

\* the positions lo..hi in ascending order
Ascending(lo, hi) == [j \in 1..(hi + 1 - lo) |-> lo - 1 + j]

\* one iteration of the loop begins: batch.map(processor) calls the
\* processor of every item of the batch, in the order of the list, before
\* anything is awaited
BatchStart ==
  /\ call.fn = "processInBatches"
  /\ call.at = "loop"
  /\ call.i < call.n
  /\ LET batch == slice(call.n, call.i, CONCURRENCY_LIMIT) IN
       call' = [call EXCEPT
         !.at = "await",
         !.status = [j \in 1..call.n |->
                       IF j \in batch THEN "running" ELSE call.status[j]],
         !.started = @ \o Ascending(call.i + 1,
                                    Min(call.i + CONCURRENCY_LIMIT, call.n))]
  /\ UNCHANGED <<history, storeVars, pc, local, trace, issued, overrun, faults>>

\* the processor of one item returns its NotificationResult: the delivery
\* was made, or it failed and the error was caught
BatchSettle ==
  /\ call.fn = "processInBatches"
  /\ \E j \in 1..call.n : \E o \in {"sent", "failed"} :
       /\ call.status[j] = "running"
       /\ call' = [call EXCEPT !.status[j] = o]
  /\ UNCHANGED <<history, storeVars, pc, local, trace, issued, overrun, faults>>

\* await Promise.allSettled(...) returns and the results are pushed
BatchAwait ==
  /\ call.fn = "processInBatches"
  /\ call.at = "await"
  /\ LET batch == slice(call.n, call.i, CONCURRENCY_LIMIT) IN
       /\ allSettled(call.status, batch)
       /\ call' = [call EXCEPT
            !.at = "loop",
            !.i = @ + CONCURRENCY_LIMIT,
            !.results = @ \o [k \in 1..Cardinality(batch) |->
                                call.status[call.i + k]]]
  /\ UNCHANGED <<history, storeVars, pc, local, trace, issued, overrun, faults>>

\* the loop ends and processInBatches returns the results
BatchReturn ==
  /\ call.fn = "processInBatches"
  /\ call.at = "loop"
  /\ call.i >= call.n
  /\ ~call.done
  /\ call' = [call EXCEPT !.done = TRUE]
  /\ UNCHANGED <<history, storeVars, pc, local, trace, issued, overrun, faults>>

InitBatch ==
  /\ lock = NoLock
  /\ lastCheckedVersion = Null
  /\ lastNotificationTime = 0
  /\ cache = [k \in Tags \X Languages |-> NoSummary]
  /\ failed = [t \in Teams |-> NoRecord]
  /\ active = Teams
  /\ pc = [p \in Procs |-> "idle"]
  /\ local = [p \in Procs |-> NoLocals]
  /\ trace = [p \in Procs |-> NoTrace]
  /\ issued = 0
  /\ overrun = FALSE
  /\ faults = 0
  /\ history = NoHistory
  /\ call \in BatchCalls

NextBatch ==
  \/ BatchStart
  \/ BatchSettle
  \/ BatchAwait
  \/ BatchReturn

BatchSpec == InitBatch /\ [][NextBatch]_vars

\* --------------------------------------- the workspace registry, step by step
\* createWorkspace, updateWorkspace and deactivateWorkspace calls on team
\* T1: each reads workspace:T1, then runs a pipeline that sets the record
\* and adds the team to workspaces:active or removes it from there.  The
\* pipeline is a batch, not a transaction: its commands are executed in
\* order, the commands of other clients between them.
NoWorkspaceData == [exists |-> FALSE, isActive |-> FALSE]

\* the calls that can be made: updateWorkspace with input.isActive
\* undefined, true or false
RegistryInputs ==
  [kind : {"create", "deactivate"}, isActive : {"undefined"}]
    \cup [kind : {"update"}, isActive : {"undefined", "true", "false"}]

\* up to MaxCalls calls in progress at once
RegistryCalls ==
  UNION {[1..n -> [input : RegistryInputs, at : {"get"},
                   existing : {NoWorkspaceData}]] : n \in 1..MaxCalls}

\* the WorkspaceData the call writes
WorkspaceDataWritten(input, existing) ==
  [exists |-> TRUE,
   isActive |->
     CASE input.kind = "create" -> TRUE
       [] input.kind = "deactivate" -> FALSE
       [] input.kind = "update" ->
            IF input.isActive = "undefined" THEN existing.isActive
            ELSE input.isActive = "true"]

\* the command the pipeline holds after its set: sadd, srem or none
MembershipCommand(input) ==
  CASE input.kind = "create" -> "sadd"
    [] input.kind = "deactivate" -> "srem"
    [] input.kind = "update" ->
         IF input.isActive = "true" THEN "sadd"
         ELSE IF input.isActive = "false" THEN "srem"
         ELSE "none"

\* redis.get(key): updateWorkspace and deactivateWorkspace return when
\* there is no record
RegistryGet ==
  /\ call.fn = "registry"
  /\ \E i \in DOMAIN call.ops :
       /\ call.ops[i].at = "get"
       /\ call' = [call EXCEPT
            !.ops[i].existing = call.data,
            !.ops[i].at = IF ~call.data.exists
                             /\ call.ops[i].input.kind # "create"
                          THEN "done" ELSE "set"]
  /\ UNCHANGED <<history, storeVars, pc, local, trace, issued, overrun, faults>>

\* the first command of the pipeline: set(key, data)
RegistrySet ==
  /\ call.fn = "registry"
  /\ \E i \in DOMAIN call.ops :
       /\ call.ops[i].at = "set"
       /\ call' = [call EXCEPT
            !.data = WorkspaceDataWritten(call.ops[i].input,
                                          call.ops[i].existing),
            !.ops[i].at = IF MembershipCommand(call.ops[i].input) = "none"
                          THEN "done" ELSE "member"]
  /\ UNCHANGED <<history, storeVars, pc, local, trace, issued, overrun, faults>>

\* the second command of the pipeline: sadd or srem on workspaces:active
RegistryMember ==
  /\ call.fn = "registry"
  /\ \E i \in DOMAIN call.ops :
       /\ call.ops[i].at = "member"
       /\ active' = IF MembershipCommand(call.ops[i].input) = "sadd"
                    THEN active \cup {"T1"} ELSE active \ {"T1"}
       /\ call' = [call EXCEPT !.ops[i].at = "done"]
  /\ UNCHANGED <<history, lock, lastCheckedVersion, lastNotificationTime, cache,
                 failed, pc, local, trace, issued, overrun, faults>>

\* the registry before the calls: T1 not installed, installed and active,
\* or deactivated; the record and the set agree
InitRegistry ==
  /\ lock = NoLock
  /\ lastCheckedVersion = Null
  /\ lastNotificationTime = 0
  /\ cache = [k \in Tags \X Languages |-> NoSummary]
  /\ failed = [t \in Teams |-> NoRecord]
  /\ pc = [p \in Procs |-> "idle"]
  /\ local = [p \in Procs |-> NoLocals]
  /\ trace = [p \in Procs |-> NoTrace]
  /\ issued = 0
  /\ overrun = FALSE
  /\ faults = 0
  /\ history = NoHistory
  /\ \E data \in {NoWorkspaceData, [exists |-> TRUE, isActive |-> TRUE],
                  [exists |-> TRUE, isActive |-> FALSE]} :
       \E ops \in RegistryCalls :
         /\ call = [fn |-> "registry", data |-> data, ops |-> ops]
         /\ active = IF data.isActive THEN Teams ELSE Teams \ {"T1"}

NextRegistry ==
  \/ RegistryGet
  \/ RegistrySet
  \/ RegistryMember

RegistrySpec == InitRegistry /\ [][NextRegistry]_vars

\* ------------------------------------------------------------------ claims
\* the step is a step of invocation p
Steps(p) == pc'[p] # pc[p] \/ local'[p] # local[p] \/ trace'[p] # trace[p]

\* the step starts invocation p: its acquireLock call
Acquires(p) == trace'[p].run # trace[p].run

\* the store answered the acquireLock call of the step
Answered(p) == trace'[p].endedAt # "acquire"

\* the step is the successful setLastCheckedVersion call of p
WritesVersion(p) ==
  /\ pc[p] = "setver"
  /\ pc'[p] \in {"setnotif", "release"}
  /\ trace'[p].endedAt = "none"

\* version a is strictly greater than the stored version b in the
\* (major, minor, patch) order; anything is greater than no stored version
Greater(a, b) ==
  \/ b = Null
  \/ LET x == parseVersion(a)
         y == parseVersion(b)
     IN \/ x[1] > y[1]
        \/ x[1] = y[1] /\ x[2] > y[2]
        \/ x[1] = y[1] /\ x[2] = y[2] /\ x[3] > y[3]

Running == {p \in Procs : InBody(p)}

\* the stored key belongs to nobody who is still running
DeadHolder == lock # NoLock /\ ~HolderRuns

\* what the main phase of a pass does to the world, as opposed to its retry
\* phase
MainEffects == {"delivery", "registry", "failures", "version", "notiftime"}

\* positions before the no-relevant-changes decision and the delivery step
EarlyPcs == {"retry_list", "retry_ws", "retry", "tag", "readver",
             "workspaces", "diff"}

\* C1: lock mutual exclusion. While the key is stored (not expired, not
\* released) every acquireLock call the store answers returns null and
\* leaves the key as it is, and a call that returns a token found no key
\* and stored that token: of the calls made while a key is held, none gets
\* a token.
C1_MutualExclusion ==
  [][\A p \in Procs :
       Acquires(p) =>
         /\ (lock # NoLock /\ Answered(p)) =>
              /\ local'[p].lockValue = 0
              /\ lock' = lock
              /\ trace'[p].outcome # "threw"
         /\ local'[p].lockValue # 0 =>
              /\ lock = NoLock
              /\ lock'.value = local'[p].lockValue
              /\ \A q \in Procs \ {p} : local[q].lockValue # local'[p].lockValue]_vars

\* an acquireLock call was answered with null while the holder of the key
\* was running its pass
C1_Witness ==
  \E p, q \in Procs :
    /\ p # q
    /\ pc[p] = "done" /\ trace[p].run # 0 /\ trace[p].outcome = "returned"
    /\ local[p].lockValue = 0
    /\ InBody(q) /\ lock.value = local[q].lockValue /\ lock # NoLock

\* C2: lock release ownership. A releaseLock call returns true only when
\* the stored value is the caller's token, and then the key is deleted; in
\* every other case (another holder's token is stored, or no key) it
\* returns false and leaves the key untouched; a call the store answers
\* returns true whenever the token matches.
C2_ReleaseOwnership ==
  [][\A p \in Procs :
       (pc[p] = "release" /\ pc'[p] = "done") =>
         /\ trace'[p].releaseResult = "true" =>
              lock.value = local[p].lockValue /\ lock' = NoLock
         /\ trace'[p].releaseResult # "true" => lock' = lock
         /\ trace'[p].releaseResult = "false" => lock.value # local[p].lockValue
         /\ (trace'[p].releaseResult # "threw" /\ lock.value = local[p].lockValue)
              => trace'[p].releaseResult = "true"]_vars

\* a holder whose key expired released after another invocation had
\* acquired the lock: false, and the other's key is still there
C2_Witness ==
  \E p, q \in Procs :
    /\ p # q
    /\ pc[p] = "done" /\ trace[p].releaseResult = "false"
    /\ local[p].lockValue # 0
    /\ lock # NoLock /\ lock.value = local[q].lockValue /\ InBody(q)

\* C3 as stated: at most one invocation at a time is inside the pass body,
\* however long a pass lasts.
C3_Original == Cardinality(Running) <= 1

\* C3: pass mutual exclusion. As long as no lock key has expired while its
\* holder was still running, at most one invocation at a time is between
\* its successful acquireLock and its releaseLock.
C3_PassMutualExclusion == overrun \/ Cardinality(Running) <= 1

\* a second invocation was turned away while the first was in its body, and
\* no key has expired under a running holder
C3_Witness ==
  /\ ~overrun
  /\ \E p, q \in Procs :
       /\ InBody(p) /\ pc[p] \in {"deliver", "record"}
       /\ pc[q] = "done" /\ trace[q].run > trace[p].run
       /\ local[q].lockValue = 0

\* C4: lock denied is a no-op. An invocation whose acquireLock returns null
\* returns normally at once: it never enters the body, makes no delivery
\* and no summarizer call, writes nothing to the store (version state,
\* cache, failure records, registry, lock key) and does not call
\* releaseLock.
C4_DeniedIsNoOp ==
  /\ [](\A p \in Procs :
          (trace[p].run # 0 /\ local[p].lockValue = 0 /\ trace[p].endedAt # "acquire") =>
            /\ pc[p] = "done"
            /\ trace[p].outcome = "returned"
            /\ trace[p].effects = {}
            /\ trace[p].releaseAttempts = 0)
  /\ [][\A p \in Procs :
          (Acquires(p) /\ Answered(p) /\ local'[p].lockValue = 0) =>
            UNCHANGED storeVars]_vars

\* an invocation was denied by a key whose holder is gone (crashed, or
\* failed to release)
C4_Witness ==
  \E p \in Procs :
    /\ pc[p] = "done" /\ trace[p].run = 2 /\ local[p].lockValue = 0
    /\ trace[p].outcome = "returned"
    /\ DeadHolder

\* C5: best-effort unlock. An invocation that got a token and has come to
\* its end has called releaseLock exactly once, whichever way the body
\* ended; it has not called it while the body runs; the body is left only
\* through the release (or by the death of the process); and the
\* invocation throws exactly when the body threw, whatever releaseLock did.
C5_BestEffortUnlock ==
  /\ [](\A p \in Procs :
          /\ (pc[p] = "done" /\ local[p].lockValue # 0) => trace[p].releaseAttempts = 1
          /\ InBody(p) => trace[p].releaseAttempts = 0)
  /\ [][\A p \in Procs :
          /\ (pc[p] \in BodyPcs /\ Steps(p)) =>
               pc'[p] \in BodyPcs \cup {"release", "crashed"}
          /\ (pc[p] = "release" /\ pc'[p] = "done") =>
               (trace'[p].outcome = "threw") = (trace[p].endedAt # "none")]_vars

\* the body threw, releaseLock was called once and deleted the key, and
\* the invocation ended with the exception of the body
C5_Witness ==
  \E p \in Procs :
    /\ pc[p] = "done" /\ local[p].lockValue # 0
    /\ trace[p].outcome = "threw"
    /\ trace[p].releaseAttempts = 1
    /\ trace[p].releaseResult = "true"
    /\ lock = NoLock

\* C6: lock recovery after a crash. A key whose holder crashed or failed
\* to release it disappears (its expiry is reached), and an invocation that
\* starts when no key is stored acquires the lock and enters the body.
C6_LockRecovery ==
  /\ DeadHolder ~> (lock = NoLock)
  /\ [][\A p \in Procs :
          (Acquires(p) /\ Answered(p) /\ lock = NoLock) =>
            /\ local'[p].lockValue # 0
            /\ lock'.value = local'[p].lockValue
            /\ pc'[p] \in {"retry_list", "release"}]_vars

\* the holder crashed, its key expired, and a later invocation holds the
\* lock and runs the body
C6_Witness ==
  \E q \in Procs :
    /\ trace[q].previous = "crashed"
    /\ InBody(q) /\ pc[q] = "deliver"
    /\ lock.value = local[q].lockValue /\ lock # NoLock
    /\ ~overrun
    /\ \A p \in Procs \ {q} : pc[p] = "idle"

\* C7 as stated: every write of last_checked_version stores a version
\* strictly greater than the one stored just before, also when passes
\* outlive the lock key.
C7_Original ==
  [][\A p \in Procs :
       WritesVersion(p) => Greater(lastCheckedVersion', lastCheckedVersion)]_vars

\* C7: version monotonic advance. As long as no lock key has expired while
\* its holder was still running, every write of last_checked_version stores
\* a version strictly greater, in the (major, minor, patch) order, than the
\* one stored just before the write.
C7_MonotonicAdvance ==
  [][\A p \in Procs :
       (WritesVersion(p) /\ ~overrun) =>
         /\ lastCheckedVersion' = local[p].latestTag
         /\ Greater(lastCheckedVersion', lastCheckedVersion)]_vars

\* a second pass has advanced the stored version from the older tag to the
\* newer one
C7_Witness ==
  /\ ~overrun
  /\ lastCheckedVersion = TagNew
  /\ \E p \in Procs :
       /\ "version" \in trace[p].effects
       /\ local[p].lastCheckedVersion = TagOld
       /\ local[p].latestTag = TagNew

\* C8: pass idempotence on processed versions. A pass that found no failure
\* records and saw a latest version not newer than the stored one has done
\* nothing when it reaches the release: no delivery, no summarizer call, no
\* write to version state, cache or failure records; and none of its steps
\* up to there changes the store.
C8_Idempotence ==
  /\ [](\A p \in Procs :
          (/\ pc[p] = "release"
           /\ trace[p].endedAt = "none"
           /\ ~trace[p].hadFailures
           /\ local[p].latestTag # Null
           /\ ~Greater(local[p].latestTag, local[p].lastCheckedVersion)) =>
            /\ trace[p].effects = {}
            /\ trace[p].exit = "no_new_version")
  /\ [][\A p \in Procs :
          (/\ pc[p] \in {"retry_list", "tag", "readver"}
           /\ Steps(p)
           /\ ~trace'[p].hadFailures) =>
            UNCHANGED <<lastCheckedVersion, lastNotificationTime, cache,
                        failed, active>>]_vars

\* a later pass saw the version an earlier pass had stored and left
C8_Witness ==
  \E p \in Procs :
    /\ pc[p] = "release" /\ trace[p].run = 2
    /\ trace[p].exit = "no_new_version"
    /\ ~trace[p].hadFailures
    /\ local[p].latestTag = lastCheckedVersion
    /\ trace[p].effects = {}

\* C9: no advance before the decision point. A pass that is before the
\* no-relevant-changes decision and the delivery step has not written
\* last_checked_version; when it ends there by an exception or a crash, the
\* step leaves last_checked_version as it is, and a version it had detected
\* as new is still newer than the stored one (if no other pass ran
\* meanwhile).
C9_NoEarlyAdvance ==
  /\ [](\A p \in Procs :
          /\ pc[p] \in EarlyPcs => "version" \notin trace[p].effects
          /\ (pc[p] = "release" /\ trace[p].endedAt \in EarlyPcs \cup {"config"}) =>
               /\ "version" \notin trace[p].effects
               /\ (~overrun /\ trace[p].endedAt \in {"workspaces", "diff"}) =>
                    Greater(local[p].latestTag, lastCheckedVersion))
  /\ [][\A p \in Procs :
          (/\ pc[p] \in EarlyPcs
           /\ Steps(p)
           /\ pc'[p] \in {"release", "crashed"}) =>
            lastCheckedVersion' = lastCheckedVersion]_vars

\* the diff fetch threw after a new version had been detected
C9_Witness ==
  \E p \in Procs :
    /\ pc[p] = "release" /\ trace[p].endedAt = "diff"
    /\ local[p].latestTag = TagNew
    /\ lastCheckedVersion = TagOld

\* C10: total generation failure. When pregenerate returns an empty Map the
\* pass goes straight to the release and calls releaseLock once: for the
\* version it detected it has made no delivery, written no failure record
\* and not written last_checked_version, and the version is still newer
\* than the stored one (if no other pass ran meanwhile).
C10_TotalGenerationFailure ==
  /\ [](\A p \in Procs :
          trace[p].exit = "no_summaries" =>
            /\ pc[p] = "release"
            /\ trace[p].endedAt = "none"
            /\ trace[p].effects \cap MainEffects = {}
            /\ ~overrun => /\ lastCheckedVersion = local[p].lastCheckedVersion
                           /\ Greater(local[p].latestTag, lastCheckedVersion))
  /\ [][\A p \in Procs :
          (trace[p].exit = "no_summaries" /\ Steps(p)) =>
            /\ pc'[p] \in {"done", "crashed"}
            /\ pc'[p] = "done" => trace'[p].releaseAttempts = 1
            /\ UNCHANGED <<lastCheckedVersion, lastNotificationTime, failed,
                           active, cache>>]_vars

\* the summarizer was called and every language failed for a new version
C10_Witness ==
  \E p \in Procs :
    /\ trace[p].exit = "no_summaries"
    /\ "summarizer" \in trace[p].effects
    /\ local[p].latestTag = TagNew
    /\ lastCheckedVersion = TagOld

\* the logs of a delivery that threw
Threw == {"failed", "invalid", "invalid_kept"}

\* the step is the sendNotificationToWorkspaces call of p
Delivers(p) == pc[p] = "deliver" /\ pc'[p] = "record"

\* the step is p's recording of the results of its delivery
Records(p) == pc[p] = "record" /\ pc'[p] = "setver"

\* the teams of a list of workspaces that have a summary in their language
Served(workspaces, summariesByLanguage) ==
  {t \in Range(workspaces) : summariesByLanguage[WorkspaceLanguage(t)].present}

AfterListing == {"diff", "summarizer", "cache", "delivery", "registry",
                 "failures", "notiftime"}

\* C12: zero recipients still advances. A pass that detected a newer
\* version and found no active recipient goes straight to the write of
\* last_checked_version, which stores the latest version, and from there to
\* its end: no diff fetch, no summarizer call, no delivery, no error.
C12_ZeroRecipientsAdvance ==
  /\ [](\A p \in Procs :
          trace[p].exit = "no_workspaces" =>
            /\ pc[p] \in {"setver", "release"}
            /\ trace[p].effects \cap AfterListing = {}
            /\ Greater(local[p].latestTag, local[p].lastCheckedVersion)
            /\ (pc[p] = "release" /\ trace[p].endedAt = "none") =>
                 "version" \in trace[p].effects)
  /\ [][\A p \in Procs :
          (trace[p].exit = "no_workspaces" /\ pc[p] = "setver"
           /\ Steps(p) /\ faults' = faults) =>
            /\ lastCheckedVersion' = local[p].latestTag
            /\ pc'[p] = "release"
            /\ trace'[p].endedAt = "none"]_vars

\* every recipient had been deactivated, a newer version came, and the
\* pass advanced the version and ended
C12_Witness ==
  \E p \in Procs :
    /\ pc[p] = "release" /\ trace[p].exit = "no_workspaces"
    /\ trace[p].endedAt = "none"
    /\ active = {}
    /\ local[p].latestTag = TagNew /\ lastCheckedVersion = TagNew
    /\ local[p].lastCheckedVersion = TagOld

\* what a pass does with a diff that has relevant changes
AfterDiffDecision == {"summarizer", "cache", "delivery", "registry",
                      "failures", "notiftime"}

\* C13: no-op-but-advance. A pass that detected a newer version, listed
\* recipients and found neither relevant files in the diff nor items in the
\* changelog goes straight to the write of last_checked_version, which
\* stores the latest version: no summarizer call, no cache write, no
\* delivery.
C13_NoOpButAdvance ==
  /\ [](\A p \in Procs :
          trace[p].exit = "no_changes" =>
            /\ pc[p] \in {"setver", "release"}
            /\ local[p].workspaces # <<>>
            /\ trace[p].effects \cap AfterDiffDecision = {}
            /\ Greater(local[p].latestTag, local[p].lastCheckedVersion)
            /\ (pc[p] = "release" /\ trace[p].endedAt = "none") =>
                 "version" \in trace[p].effects)
  /\ [][\A p \in Procs :
          (trace[p].exit = "no_changes" /\ pc[p] = "setver"
           /\ Steps(p) /\ faults' = faults) =>
            /\ lastCheckedVersion' = local[p].latestTag
            /\ cache' = cache
            /\ pc'[p] = "release"]_vars

\* the diff and the changelog of a newer version were empty (the changelog
\* fetch had failed), and the pass advanced the version
C13_Witness ==
  \E p \in Procs :
    /\ pc[p] = "release" /\ trace[p].exit = "no_changes"
    /\ trace[p].endedAt = "none"
    /\ faults = 1
    /\ local[p].latestTag = TagNew /\ lastCheckedVersion = TagNew
    /\ local[p].lastCheckedVersion = TagOld

\* C14: fan-out isolation. Whatever subset of the deliveries throws,
\* sendNotificationToWorkspaces returns to its caller one result per listed
\* recipient, in the order of the list, result i for recipient i; a result
\* is a failure exactly when the recipient's own delivery threw or its
\* language has no summary, and every other recipient's delivery is
\* attempted and its result a success.
C14_FanOutIsolation ==
  [][\A p \in Procs :
       /\ (pc[p] = "deliver" /\ Steps(p) /\ pc'[p] # "crashed") =>
            pc'[p] = "record" /\ trace'[p].endedAt = "none"
       /\ Delivers(p) =>
            LET workspaces == local[p].workspaces
                results == local'[p].results
                sent == trace'[p].sent
            IN
            /\ Len(results) = Len(workspaces)
            /\ \A i \in 1..Len(workspaces) :
                 /\ results[i].teamId = workspaces[i]
                 /\ ~results[i].success <=>
                      sent[workspaces[i]] \in Threw \cup {"skipped"}
                 /\ results[i].success <=> sent[workspaces[i]] = "ok"
                 /\ sent[workspaces[i]] = "skipped" <=>
                      workspaces[i] \notin
                        Served(workspaces, local[p].summariesByLanguage)]_vars

\* the delivery to the first recipient threw, and the second recipient got
\* its delivery and a successful result after it
C14_Witness ==
  \E p \in Procs :
    /\ pc[p] = "record"
    /\ Len(local[p].results) = 2
    /\ ~local[p].results[1].success /\ local[p].results[1].error = "threw"
    /\ local[p].results[2].success
    /\ trace[p].sent = [t \in Teams |-> IF t = local[p].results[1].teamId
                                        THEN "failed" ELSE "ok"]

\* the step is p's handling of one failure record in the retry phase, the
\* store taking the write
Retries(p) ==
  /\ pc[p] = "retry" /\ pc'[p] \in {"retry", "tag"}
  /\ local[p].failedWorkspaces # <<>>
  /\ Head(local[p].failedWorkspaces).version = local[p].version
  /\ local'[p].failedWorkspaces = Tail(local[p].failedWorkspaces)

\* C15: bounded retry. In the retry phase a failure record whose retryCount
\* is 3 or more is removed without a delivery attempt, and no record ever
\* has a retryCount above 3: a record at 2 whose retry fails is at 3, and
\* the next pass removes it.
C15_BoundedRetry ==
  /\ [](\A t \in Teams : failed[t].retryCount <= 3)
  /\ [][\A p \in Procs :
          Retries(p) =>
            LET f == Head(local[p].failedWorkspaces) IN
            f.retryCount >= 3 =>
              /\ trace'[p].retried[f.teamId] = "removed"
              /\ failed'[f.teamId] = NoRecord
              /\ active' = active]_vars

\* T1's record was at retryCount 2, its retry failed, and a later pass
\* removed the record without a delivery attempt while T1 was still active
C15_Witness ==
  \E p \in Procs :
    /\ trace[p].retried["T1"] = "removed"
    /\ trace[p].run = 2
    /\ "T1" \in active
    /\ failed["T1"] = NoRecord
    /\ faults = 1

Completed(p) ==
  pc[p] = "release" /\ trace[p].exit = "completed" /\ trace[p].endedAt = "none"

Attempts(p, t) ==
  \/ Delivers(p) /\ trace'[p].sent[t] \in {"ok"} \cup Threw
  \/ /\ Retries(p)
     /\ Head(local[p].failedWorkspaces).teamId = t
     /\ trace'[p].retried[t] \in {"ok"} \cup Threw

Pregenerates(p) ==
  pc[p] = "generate" /\ Steps(p) /\ pc'[p] # "crashed"

\* the store holds an entry that getAll returns for the language
Cached(version, l) ==
  /\ cache[<<version, l>>].present
  /\ (l # "en" => cache[<<version, l>>].korean)

\* C19 as stated: after a pregenerate call whose generator returned a
\* summary for every language it was asked for, the store answering every
\* call, every language of the result is in the cache, so that a second
\* call asks the generator for nothing.
C19_Original ==
  [][\A p \in Procs :
       (Pregenerates(p)
        /\ \A l \in Languages :
             local'[p].generated[l] \in {"cached", "ok", "thin"}) =>
         \A l \in Languages :
           cache'[<<local[p].latestTag, l>>] = local'[p].summariesByLanguage[l]]_vars

\* C19: cache idempotence. A pregenerate call whose generator returns, for
\* every language it is asked for, a summary with substantial content in
\* that language, the store taking every call, returns a mapping of all
\* languages and leaves exactly that mapping in the cache; it asks the
\* generator only for the languages the cache did not hold; and no step
\* changes an entry the cache holds. A second call is then served from the
\* cache and returns the same mapping.
C19_CacheIdempotence ==
  [][/\ \A v \in Tags : \A l \in Languages :
          Cached(v, l) => cache'[<<v, l>>] = cache[<<v, l>>]
     /\ \A p \in Procs :
          (Pregenerates(p) /\ faults' = faults) =>
            \A l \in Languages :
              LET k == <<local[p].latestTag, l>> IN
              /\ local'[p].summariesByLanguage[l].present
              /\ cache'[k] = local'[p].summariesByLanguage[l]
              /\ IF Cached(local[p].latestTag, l)
                 THEN local'[p].generated[l] = "cached"
                 ELSE local'[p].generated[l] = "ok"]_vars

\* the second call: an earlier pass generated and cached both languages and
\* ended with an error before the version was written; this pass called
\* pregenerate for the same version and got both from the cache
C19_Witness ==
  \E p \in Procs :
    /\ pc[p] = "deliver"
    /\ trace[p].run = 2
    /\ \A l \in Languages :
         /\ local[p].generated[l] = "cached"
         /\ local[p].summariesByLanguage[l] = cache[<<local[p].latestTag, l>>]
    /\ "summarizer" \notin trace[p].effects

\* C20: pregenerate partial-failure isolation. pregenerate never throws,
\* whatever the generator and the store do; the mapping it returns holds a
\* language exactly when getAll returned it from the cache or the generator
\* returned a summary in that language whose set() the store did not
\* reject; a language whose generator threw is left out and the others are
\* generated all the same.
C20_PartialFailureIsolation ==
  [][\A p \in Procs :
       Pregenerates(p) =>
         /\ pc'[p] \in {"deliver", "release"}
         /\ trace'[p].endedAt = "none"
         /\ \A l \in Languages :
              /\ local'[p].summariesByLanguage[l].present <=>
                   local'[p].generated[l] \in {"cached", "ok", "thin"}
              /\ local'[p].generated[l] = "cached" =>
                   /\ Cached(local[p].latestTag, l)
                   /\ local'[p].summariesByLanguage[l] =
                        cache[<<local[p].latestTag, l>>]]_vars

\* the generator threw for Korean and returned the English summary: the
\* mapping holds English only and the pass goes on to the delivery
C20_Witness ==
  \E p \in Procs :
    /\ pc[p] = "deliver"
    /\ local[p].generated = [l \in Languages |->
                               IF l = "en" THEN "ok" ELSE "threw"]
    /\ local[p].summariesByLanguage["en"].present
    /\ ~local[p].summariesByLanguage["ko"].present
    /\ trace[p].endedAt = "none"

\* the entry passes both checks of SummaryCache.set for the language
Conformant(summary, l) ==
  summary.substantial /\ (l # "en" => summary.korean)

\* C21: cache write validity. set() writes an entry only when the summary
\* has substantial content and conforms to the language; otherwise it
\* returns without error (pregenerate goes on and decides on the result by
\* the language check alone) and the store keeps what it had. Every entry of
\* the cache, all written through set(), passes both checks.
C21_CacheWriteValidity ==
  /\ [](\A v \in Tags : \A l \in Languages :
          cache[<<v, l>>].present => Conformant(cache[<<v, l>>], l))
  /\ [][\A p \in Procs :
          Pregenerates(p) =>
            \A l \in Languages :
              LET k == <<local[p].latestTag, l>> IN
              /\ local'[p].generated[l] \in {"thin", "rejected"} =>
                   /\ cache'[k] \in {cache[k], NoSummary}
                   /\ trace'[p].endedAt = "none"
              /\ local'[p].generated[l] = "thin" =>
                   /\ local'[p].summariesByLanguage[l].present
                   /\ ~local'[p].summariesByLanguage[l].substantial
              /\ local'[p].generated[l] = "ok" =>
                   /\ cache'[k] = local'[p].summariesByLanguage[l]
                   /\ Conformant(cache'[k], l)]_vars

\* the generator returned an English summary without content and, for
\* Korean, a summary that is not Korean: set() wrote neither, and the pass
\* goes on with the English one
C21_Witness ==
  \E p \in Procs :
    /\ pc[p] = "deliver"
    /\ local[p].generated = [l \in Languages |->
                               IF l = "en" THEN "thin" ELSE "rejected"]
    /\ \A l \in Languages : ~cache[<<local[p].latestTag, l>>].present

\* the positions of the retry phase and those of the version detection and
\* everything after it
RetryPcs == {"retry_list", "retry_ws", "retry"}
DetectPcs == BodyPcs \ RetryPcs

\* what the retry phase does to the store and the outside world
RetryEffects == {"retry_delivery", "retry_failures", "retry_registry"}

\* C24: retry-before-detect ordering. While a pass is in its retry phase it
\* has fetched no tag, has not read last_checked_version and has done
\* nothing of the main phase; once it fetches the tag no failure is left to
\* retry, and from then on it makes no retry delivery and no failure-record
\* update of the retry phase.
C24_RetryBeforeDetect ==
  /\ [](\A p \in Procs :
          /\ pc[p] \in RetryPcs =>
               /\ local[p].latestTag = Null
               /\ local[p].lastCheckedVersion = Null
               /\ trace[p].effects \subseteq RetryEffects
               /\ trace[p].sent = NoLog
          /\ pc[p] \in DetectPcs => local[p].failedWorkspaces = <<>>)
  /\ [][\A p \in Procs :
          (pc[p] \in DetectPcs /\ pc'[p] \in DetectPcs \cup {"release"}) =>
            /\ trace'[p].retried = trace[p].retried
            /\ trace'[p].effects \cap RetryEffects =
                 trace[p].effects \cap RetryEffects]_vars

\* T1's failed delivery of the older version was retried, and only then did
\* the pass detect the newer version and come to its delivery
C24_Witness ==
  \E p \in Procs :
    /\ pc[p] = "deliver"
    /\ trace[p].retried["T1"] = "ok"
    /\ "retry_delivery" \in trace[p].effects
    /\ local[p].latestTag = TagNew

\* the pass of p has delivered and has written the version
Advanced(p) ==
  /\ pc[p] \in {"setnotif", "release"}
  /\ local[p].delivered
  /\ "version" \in trace[p].effects

\* C25: failures are recorded for retry. After a pass that reached the
\* delivery and advanced the version to V, every recipient whose result was
\* a failure has a failure record with version V and retryCount 0.
C25_FailuresRecorded ==
  \A p \in Procs :
    Advanced(p) =>
      \A t \in Teams :
        trace[p].sent[t] \in Threw \cup {"skipped"} =>
          failed[t] = [version |-> local[p].latestTag, retryCount |-> 0]

\* C26: one failure record per recipient. The failures a pass reads from the
\* store are of different recipients, and recording a failure of the main
\* delivery leaves the recipient with the new record alone (the detected
\* version, retryCount 0), whatever record it had, that of an older version
\* included.
C26_OneRecordPerRecipient ==
  /\ [](\A p \in Procs :
          \A i, j \in DOMAIN local[p].failedWorkspaces :
            i # j => local[p].failedWorkspaces[i].teamId #
                     local[p].failedWorkspaces[j].teamId)
  /\ [][\A p \in Procs :
          (Records(p) /\ faults' = faults) =>
            \A t \in Teams :
              trace[p].sent[t] \in Threw \cup {"skipped"} =>
                /\ failed'[t].version = local[p].latestTag
                /\ failed'[t].retryCount = 0
                /\ \A u \in Teams \ {t} :
                     trace[p].sent[u] = "none" => failed'[u] = failed[u]]_vars

\* T1's record of the older version stood at retryCount 3 after its retry
\* had failed; the delivery of the newer version to T1 failed too, and the
\* record is now that of the newer version, at retryCount 0
C26_Witness ==
  \E p \in Procs :
    /\ pc[p] = "setver"
    /\ trace[p].retried["T1"] \in Threw
    /\ trace[p].sent["T1"] \in Threw
    /\ failed["T1"] = [version |-> TagNew, retryCount |-> 0]

\* the step removes t's failure record because a delivery to t succeeded, in
\* the retry phase or in the main delivery phase
RemovedOnSuccess(t) ==
  \E p \in Procs :
    \/ /\ Retries(p)
       /\ Head(local[p].failedWorkspaces).teamId = t
       /\ trace'[p].retried[t] = "ok"
    \/ Records(p) /\ trace[p].sent[t] = "ok"

\* the step removes t's failure record without a delivery, because the
\* retry limit is reached or t is not active
RemovedOnGivingUp(t) ==
  \E p \in Procs :
    /\ Retries(p)
    /\ Head(local[p].failedWorkspaces).teamId = t
    /\ trace'[p].retried[t] = "removed"
    /\ \/ Head(local[p].failedWorkspaces).retryCount >= 3
       \/ t \notin local[p].workspaceMap

\* the step removes the failure records of a version for which getAll
\* returned no summary, t's among them
RemovedWithGroup(t) ==
  \E p \in Procs :
    /\ pc[p] = "retry" /\ Steps(p)
    /\ local[p].failedWorkspaces # <<>>
    /\ LET v == Head(local[p].failedWorkspaces).version IN
       /\ v # local[p].version
       /\ \E f \in Range(local[p].failedWorkspaces) :
            f.teamId = t /\ f.version = v
       /\ (\A l \in Languages : ~Cached(v, l)) \/ faults' # faults

\* the step writes a failure record for t after a delivery to t threw
CreatedOnThrow(t) ==
  \E p \in Procs :
    \/ Records(p) /\ trace[p].sent[t] \in Threw
    \/ /\ Retries(p)
       /\ Head(local[p].failedWorkspaces).teamId = t
       /\ trace'[p].retried[t] \in Threw

C28_RetryLanguageFallback ==
  [][\A p \in Procs :
       Retries(p) =>
         LET f == Head(local[p].failedWorkspaces)
             t == f.teamId
             m == local[p].retrySummaries
             used == trace'[p].effective[t]
         IN
         /\ \E l \in Languages : m[l].present
         /\ (f.retryCount < 3 /\ t \in local[p].workspaceMap) =>
              /\ trace'[p].retried[t] \in {"ok"} \cup Threw
              /\ used \in Languages
              /\ m[used].present
              /\ m[WorkspaceLanguage(t)].present => used = WorkspaceLanguage(t)]_vars

\* no Korean summary is cached for the version of T2's failure: the retry
\* delivered the English one to T2
C28_Witness ==
  \E p \in Procs :
    /\ trace[p].retried["T2"] = "ok"
    /\ trace[p].effective["T2"] = "en"
    /\ WorkspaceLanguage("T2") = "ko"
    /\ ~local[p].retrySummaries["ko"].present

\* the (major, minor, patch) triple a is greater than the triple b
TripleGreater(a, b) ==
  \/ a[1] > b[1]
  \/ a[1] = b[1] /\ a[2] > b[2]
  \/ a[1] = b[1] /\ a[2] = b[2] /\ a[3] > b[3]

\* the call isNewerVersion(current, last) has returned
IsNewerReturned(current, last) ==
  /\ call.fn = "isNewerVersion"
  /\ call.done
  /\ call.current = current
  /\ call.last = last

\* C23: isNewerVersion(candidate, baseline) is true for every candidate
\* when the baseline is absent, and otherwise it is the strict
\* lexicographic comparison candidate > baseline of the (major, minor,
\* patch) triples of the two strings, an unparseable string counting as
\* (0, 0, 0).  So isNewer("1.2.4", "1.2.3"), isNewer("1.3.0", "1.2.9"),
\* isNewer("2.0.0", "1.9.9") and isNewer("1.2.3", null) are true,
\* isNewer("1.2.3", "1.2.3") is false, and no call returns true when the
\* call with the two strings exchanged returns true.
C23_IsNewerVersion ==
  (call.fn = "isNewerVersion" /\ call.done) =>
    /\ call.last = Null => call.result
    /\ call.last # Null =>
         /\ call.result = TripleGreater(parseVersion(call.current),
                                        parseVersion(call.last))
         /\ ~(call.result /\ isNewerVersion(call.last, call.current))
    /\ IsNewerReturned(V124, V123) => call.result
    /\ IsNewerReturned(V130, V129) => call.result
    /\ IsNewerReturned(V200, V199) => call.result
    /\ IsNewerReturned(V123, Null) => call.result
    /\ IsNewerReturned(V123, V123) => ~call.result
    /\ parseVersion(VLatest) = <<0, 0, 0>>
    /\ parseVersion(VTwoParts) = <<0, 0, 0>>
    /\ parseVersion(TagNew) = <<1, 10, 0>>

\* the comparison decided on the minor number: 1.3.0 against 1.2.9
C23_Witness == IsNewerReturned(V130, V129) /\ call.result

\* the store holds under the key an entry that is not in the language: it
\* was written past set()
Polluted(version, l) ==
  /\ l # "en"
  /\ cache[<<version, l>>].present
  /\ ~cache[<<version, l>>].korean

\* the step is the return of get(version, l), the store having answered
GetReturns(version, l) ==
  /\ call.fn = "get" /\ ~call.done /\ call'.done
  /\ call.version = version /\ call.language = l
  /\ call.getOk /\ call.delOk

\* the step is the return of getAll(version), the store having answered
GetAllReturns(version) ==
  /\ call.fn = "getAll" /\ ~call.done /\ call'.done
  /\ call.version = version
  /\ call.getOk /\ call.delOk

\* the step is the return of get or getAll, the store having rejected a call
ReadRejected ==
  /\ call.fn \in {"get", "getAll"} /\ ~call.done /\ call'.done
  /\ ~(call.getOk /\ call.delOk)

\* the store differs at most under the key
OnlyKeyChanged(version, l) ==
  \A k \in Tags \X Languages : k # <<version, l>> => cache'[k] = cache[k]

\* C22: cache self-healing read. When the store holds, for a language
\* other than the default one, an entry that fails the language check,
\* get(version, language) returns absent and deletes that key and no
\* other, and getAll(version) leaves the language out of its result and
\* deletes that key and no other, while every conformant entry of the
\* version is returned as it is stored and stays in the store. (A read
\* the store rejects returns without raising and deletes nothing.)
C22_CacheSelfHealingRead ==
  [][/\ \A version \in Tags : \A l \in Languages :
          Polluted(version, l) =>
            /\ GetReturns(version, l) =>
                 /\ call'.found = NoSummary
                 /\ cache'[<<version, l>>] = NoSummary
                 /\ OnlyKeyChanged(version, l)
            /\ GetAllReturns(version) =>
                 /\ call'.results[l] = NoSummary
                 /\ cache'[<<version, l>>] = NoSummary
                 /\ OnlyKeyChanged(version, l)
                 /\ \A other \in Languages \ {l} :
                      Cached(version, other) =>
                        call'.results[other] = cache[<<version, other>>]
            /\ \A other \in Languages \ {l} :
                 (GetReturns(version, other) /\ Cached(version, other)) =>
                   /\ call'.found = cache[<<version, other>>]
                   /\ cache' = cache
     /\ ReadRejected =>
          /\ cache' = cache
          /\ (call.fn = "get" /\ ~call.getOk) => call'.found = NoSummary
          /\ (call.fn = "getAll" /\ ~call.getOk) =>
               call'.results = NoSummaries]_vars

\* getAll met a polluted Korean entry next to an English one: it returned
\* the English one alone and the Korean key is gone
C22_Witness ==
  /\ call.fn = "getAll" /\ call.done
  /\ call.values["ko"].present /\ ~call.values["ko"].korean
  /\ call.values["en"].present
  /\ call.results["en"] = call.values["en"]
  /\ ~call.results["ko"].present
  /\ ~cache[<<call.version, "ko">>].present
  /\ cache[<<call.version, "en">>].present

\* the deliveries in flight
InFlight == {j \in 1..call.n : call.status[j] = "running"}

\* the batch an item belongs to, counted from 0
BatchIndex(j) == (j - 1) \div CONCURRENCY_LIMIT

\* the item's delivery starts in the step
Starts(j) == call.status[j] = "waiting" /\ call'.status[j] = "running"

\* C29: bounded delivery concurrency. At most 10 deliveries are in flight
\* at any moment; the recipients are started in the order of the list, in
\* consecutive batches of at most 10; no delivery of batch k+1 starts
\* before every delivery of batch k has settled, as sent or as failed; and
\* the call returns one result per recipient, in the order of the list.
C29_BoundedConcurrency ==
  /\ [](call.fn = "processInBatches" =>
          /\ Cardinality(InFlight) <= 10
          /\ call.started = Ascending(1, Len(call.started))
          /\ \A j \in 1..call.n :
               call.status[j] # "waiting" <=> j <= Len(call.started)
          /\ call.done =>
               /\ Len(call.results) = call.n
               /\ \A j \in 1..call.n : call.results[j] = call.status[j]
                                        /\ call.status[j] \in {"sent", "failed"})
  /\ [][call.fn = "processInBatches" =>
          \A j \in 1..call.n :
            Starts(j) =>
              /\ \A e \in 1..call.n :
                   BatchIndex(e) < BatchIndex(j) =>
                     call.status[e] \in {"sent", "failed"}
              /\ \A e \in 1..call.n :
                   Starts(e) <=> BatchIndex(e) = BatchIndex(j)]_vars

\* the second batch is in flight after a first batch of 10 in which a
\* delivery failed
C29_Witness ==
  /\ call.fn = "processInBatches"
  /\ call.n > 10
  /\ call.status[11] = "running"
  /\ Len(call.results) = 10
  /\ \E j \in 1..10 : call.status[j] = "failed"

\* the place of a message in a thread: the main message, then the replies
\* in the order of the categories
Rank(m) ==
  CASE m = "main" -> 0 [] m = "cli" -> 1 [] m = "flag" -> 2
    [] m = "prompt" -> 3

\* the category has items
NonEmpty(summary, m) ==
  CASE m = "cli" -> summary.cliChanges
    [] m = "flag" -> \/ summary.flagChanges.added
                     \/ summary.flagChanges.removed
                     \/ summary.flagChanges.modified
    [] m = "prompt" -> summary.promptChanges

Posted == {call.posts[k] : k \in 1..Len(call.posts)}

\* C30: per-recipient message ordering. Within one delivery the main
\* message is posted first; a reply is posted only after the main post
\* returned a message handle; the replies are posted one after the other
\* in the order CLI changes, flag changes, prompt changes, each only when
\* its category has items, and a delivery that returns has posted every
\* one of those; when the main post fails or returns no handle, no reply
\* is posted and the delivery fails.
C30_MessageOrdering ==
  /\ [](call.fn = "sendWorkspaceNotification" =>
          /\ call.posts # <<>> => call.posts[1] = "main"
          /\ \A k \in 1..Len(call.posts) : \A m \in 1..Len(call.posts) :
               k < m => Rank(call.posts[k]) < Rank(call.posts[m])
          /\ \A m \in Posted \ {"main"} :
               /\ call.mainResult = "ts"
               /\ NonEmpty(call.summary, m)
          /\ call.at = "returned" =>
               \A m \in {"cli", "flag", "prompt"} :
                 NonEmpty(call.summary, m) => m \in Posted
          /\ call.mainResult \in {"threw", "no_ts"} =>
               /\ call.at = "threw"
               /\ Posted \subseteq {"main"})
  /\ [][call.fn = "sendWorkspaceNotification" =>
          Len(call'.posts) <= Len(call.posts) + 1]_vars

\* a delivery with items in the first and the last category returned: the
\* thread is the main message, the CLI reply and the prompt reply
C30_Witness ==
  /\ call.fn = "sendWorkspaceNotification"
  /\ call.at = "returned"
  /\ call.posts = <<"main", "cli", "prompt">>

\* what a pass goes on with when the changelog fetch threw: no items and
\* an empty compare URL
Fallback == [changes |-> "empty", compareUrl |-> ""]

\* the step is p's fetch of the diff and of the changelog, the diff fetch
\* returning and the changelog fetch throwing
ChangelogFetchThrows(p) ==
  /\ pc[p] = "diff"
  /\ Steps(p)
  /\ faults' # faults
  /\ pc'[p] # "crashed"
  /\ trace'[p].endedAt = "none"

\* C31: partial-content degradation. When the changelog fetch throws while
\* the diff fetch succeeds, the pass does not abort: it goes on with an
\* empty list of changelog items and an empty changelog URL, and when the
\* diff has relevant files it goes to the generation of the summaries, and
\* from there, with a summary, to the delivery, which attempts every
\* recipient that has a summary in its language.
C31_PartialContentDegradation ==
  [][\A p \in Procs :
       /\ ChangelogFetchThrows(p) =>
            /\ local'[p].cliResult = Fallback
            /\ pc'[p] \in {"generate", "setver"}
            /\ local'[p].diff.files = "some" => pc'[p] = "generate"
       /\ (local[p].cliResult = Fallback /\ pc[p] \in {"generate", "deliver"}) =>
            /\ (Pregenerates(p) /\ trace'[p].endedAt = "none") =>
                 /\ "summarizer" \in trace'[p].effects
                      \/ \A l \in Languages : Cached(local[p].latestTag, l)
                 /\ MapSize(local'[p].summariesByLanguage) > 0 =>
                      pc'[p] = "deliver"
            /\ Delivers(p) =>
                 \A t \in Served(local[p].workspaces,
                                 local[p].summariesByLanguage) :
                   trace'[p].sent[t] \in {"ok"} \cup Threw]_vars

\* a pass whose changelog fetch threw has generated a summary from the
\* diff alone and stands before its delivery
C31_Witness ==
  \E p \in Procs :
    /\ pc[p] = "deliver"
    /\ local[p].cliResult = Fallback
    /\ MapSize(local[p].summariesByLanguage) > 0

\* C38: a changelog fetch failure with an empty diff advances the version.
\* When the changelog fetch throws and the diff has no relevant files, the
\* pass takes the version for one without relevant changes: it goes
\* straight to the write of last_checked_version, which stores the latest
\* version, and from there to its end, with no summarizer call and no
\* delivery; a later pass that finds the same latest version makes no
\* delivery.
C38_FetchFailureEmptyDiffAdvances ==
  [][\A p \in Procs :
       /\ (ChangelogFetchThrows(p) /\ local'[p].diff.files = "none") =>
            /\ pc'[p] = "setver"
            /\ trace'[p].exit = "no_changes"
       /\ (local[p].cliResult = Fallback /\ local[p].diff.files = "none"
             /\ WritesVersion(p)) =>
            /\ lastCheckedVersion' = local[p].latestTag
            /\ pc'[p] = "release"
            /\ trace'[p].sent = NoLog
            /\ trace'[p].effects \cap {"summarizer", "cache", "delivery",
                                       "failures", "notiftime"} = {}
       /\ (pc[p] = "readver" /\ Steps(p) /\ trace'[p].endedAt = "none"
             /\ pc'[p] # "crashed"
             /\ lastCheckedVersion = local[p].latestTag) =>
            pc'[p] = "release"]_vars

\* the changelog fetch threw, the diff had no relevant files, and the pass
\* has written the latest version without a delivery
C38_Witness ==
  \E p \in Procs :
    /\ pc[p] = "release"
    /\ local[p].cliResult = Fallback
    /\ local[p].diff.files = "none"
    /\ lastCheckedVersion = local[p].latestTag
    /\ "version" \in trace[p].effects
    /\ trace[p].sent = NoLog

\* the attempts a withRetry call may make
Allowed ==
  IF "maxAttempts" \in DOMAIN call.options THEN call.options.maxAttempts
  ELSE 3

\* the longest wait a withRetry call may make
LongestWait ==
  IF "maxDelayMs" \in DOMAIN call.options THEN call.options.maxDelayMs
  ELSE 30000

\* C32: bounded transient retry. withRetry calls fn at most maxAttempts
\* times (3 when the caller names no number); the first call that succeeds
\* ends it with no further call; an error that is not retryable is thrown
\* on after the call that raised it; when every call fails with a
\* retryable error the last error is thrown after exactly maxAttempts
\* calls; there is one wait between two calls and none at the end, and no
\* wait is longer than maxDelayMs.
C32_BoundedTransientRetry ==
  /\ [](call.fn = "withRetry" =>
          /\ call.calls <= Allowed
          /\ \A k \in 1..Len(call.waits) : call.waits[k] <= LongestWait
          /\ Len(call.waits) = IF call.at = "loop" THEN call.calls
                               ELSE call.calls - 1
          /\ call.at = "threw" =>
               /\ call.thrown \in {"transient", "permanent"}
               /\ call.thrown = "transient" => call.calls = Allowed)
  /\ [][call.fn = "withRetry" =>
          /\ call.at # "loop" => call' = call
          /\ call'.calls <= call.calls + 1
          /\ (call.at = "loop" /\ call'.at = "loop") =>
               /\ call'.lastError = "transient"
               /\ call'.calls = call.calls + 1
          /\ (call.at = "loop" /\ call'.at = "threw") =>
               /\ call'.calls = call.calls + 1
               /\ call'.thrown = call'.lastError
               /\ call'.thrown = "permanent" \/ call'.calls = Allowed]_vars

\* a call with the default options threw the third transient error after
\* two waits
C32_Witness ==
  /\ call.fn = "withRetry"
  /\ call.options = <<>>
  /\ call.at = "threw"
  /\ call.thrown = "transient"
  /\ call.calls = 3
  /\ Len(call.waits) = 2

\* the summary is in the language: anything passes for English, Korean
\* text is needed for Korean
InLanguage(summary, l) == l # "en" => summary.korean

\* C33: summarizer conformance retry. generateSummary makes at most two
\* summarizer requests per call; the second, with the reinforced
\* instruction, is made only when the output of the first is not in the
\* language; when the output of the second is not in the language either,
\* the call throws; every summary generateSummary returns is in the
\* language it was asked for.
C33_SummarizerConformanceRetry ==
  /\ [](call.fn = "generateSummary" =>
          /\ Len(call.requests) <= 2
          /\ call.requests \in {<<>>, <<"first">>, <<"first", "second">>}
          /\ call.at = "returned" =>
               /\ call.returned.present
               /\ InLanguage(call.returned, call.language)
          /\ call.at # "returned" => call.returned = NoSummary
          /\ call.language = "en" => Len(call.requests) <= 1)
  /\ [][call.fn = "generateSummary" =>
          /\ call.at \in {"returned", "threw"} => call' = call
          /\ (call.at = "first" /\ call'.at = "second") =>
               \E parsed \in Summaries :
                 /\ ~InLanguage(parsed, call.language)
                 /\ call'.requests = <<"first">>
          /\ (call.at = "second" /\ call' # call) =>
               /\ call'.at \in {"returned", "threw"}
               /\ call'.at = "returned" =>
                    InLanguage(call'.returned, call.language)]_vars

\* the first output for Korean was not Korean, the reinforced request got
\* a Korean one, and the call returned it
C33_Witness ==
  /\ call.fn = "generateSummary"
  /\ call.language = "ko"
  /\ call.requests = <<"first", "second">>
  /\ call.at = "returned"
  /\ call.returned.korean

\* every registry call has returned
RegistryQuiet ==
  \A i \in DOMAIN call.ops : call.ops[i].at = "done"

\* C34: recipient registry consistency under interleaving. For any
\* interleaving of createWorkspace, updateWorkspace and deactivateWorkspace
\* calls on one team, once every call has returned the team is a member of
\* workspaces:active if and only if its stored record has isActive = true.
C34_RegistryConsistency ==
  (call.fn = "registry" /\ RegistryQuiet) =>
    ("T1" \in active <=> (call.data.exists /\ call.data.isActive))

\* every fault so far was a delivery that threw: no store call was
\* rejected, no process died, no other external call failed
OnlyDeliveriesFailed == faults = history.sendFailures

\* the step completes a delivery of the version to the team, in the main
\* phase or in the retry phase
Receives(p, t, version) ==
  \/ /\ Delivers(p)
     /\ trace'[p].sent[t] = "ok"
     /\ local[p].latestTag = version
  \/ /\ pc[p] = "retry" /\ Steps(p)
     /\ local[p].failedWorkspaces # <<>>
     /\ Head(local[p].failedWorkspaces) =
          [teamId |-> t, version |-> version,
           retryCount |-> Head(local[p].failedWorkspaces).retryCount]
     /\ trace'[p].retried[t] = "ok"

NoValidSummary(version) ==
  \A l \in Languages :
    ~(/\ cache[<<version, l>>].present
      /\ validateSummaryLanguage(cache[<<version, l>>], l))

\* the step is p's getAll for the next version group of its retry phase and
\* what follows it before the next await of the loop, no store call of it
\* being rejected
OpensGroup(p) ==
  /\ pc[p] = "retry"
  /\ Steps(p)
  /\ pc'[p] # "crashed"
  /\ local[p].failedWorkspaces # <<>>
  /\ Head(local[p].failedWorkspaces).version # local[p].version
  /\ faults' = faults

\* C37: retry without cached summaries gives up. When the retry phase comes
\* to the failure records of a version for which the cache holds no valid
\* summary in any language, it removes every failure record of that version
\* from the store, whatever its retryCount and whether or not its recipient
\* is active, makes no delivery attempt for any of them, and goes on with
\* the records of the other versions.
C37_RetryGivesUpWithoutSummaries ==
  [][\A p \in Procs :
       (OpensGroup(p)
        /\ NoValidSummary(Head(local[p].failedWorkspaces).version)) =>
         LET v == Head(local[p].failedWorkspaces).version IN
         /\ \A i \in DOMAIN local[p].failedWorkspaces :
              local[p].failedWorkspaces[i].version = v =>
                failed'[local[p].failedWorkspaces[i].teamId] = NoRecord
         /\ \A i \in DOMAIN local'[p].failedWorkspaces :
              local'[p].failedWorkspaces[i].version # v
         /\ pc'[p] = AfterRetry(local'[p].failedWorkspaces)
         /\ trace'[p].retried = trace[p].retried
         /\ "retry_delivery" \notin trace'[p].effects
         /\ active' = active
         /\ history' = history]_vars

\* a retry phase has given up on the records of T1, active and retried once,
\* and of T2, deactivated and retried three times, and has gone on
C37_Witness ==
  \E p \in Procs :
    /\ pc[p] = "tag"
    /\ trace[p].hadFailures
    /\ trace[p].run = 1
    /\ "retry_failures" \in trace[p].effects
    /\ trace[p].retried = NoLog
    /\ failed = [t \in Teams |-> NoRecord]
    /\ active = {"T1"}
    /\ faults = 0

HandlesRecord(p) ==
  /\ pc[p] = "retry"
  /\ Steps(p)
  /\ pc'[p] # "crashed"
  /\ local[p].failedWorkspaces # <<>>
  /\ Head(local[p].failedWorkspaces).version = local[p].version

C39_PregenerateConformant ==
  [][(call.fn = "pregenerate" /\ ~call.done /\ call'.done) =>
       \A l \in Languages :
         LET k == <<call.version, l>> IN
         /\ call'.results[l].present =>
              /\ validateSummaryLanguage(call'.results[l], l)
              /\ call'.results[l] =
                   IF l \in call'.asked THEN call.gen[l] ELSE cache[k]
         /\ (l \in call'.asked /\ call.gen[l].present
               /\ ~validateSummaryLanguage(call.gen[l], l)) =>
              /\ ~call'.results[l].present
              /\ cache'[k] \in {cache[k], NoSummary}]_vars

\* a call has returned the English summary of the generator alone: the
\* cache held a Korean entry in the wrong language, which was deleted, and
\* the generator returned another one, which was dropped
C39_Witness ==
  /\ call.fn = "pregenerate"
  /\ call.done
  /\ call.getOk
  /\ call.asked = Languages
  /\ call.results["en"] = call.gen["en"]
  /\ call.results["en"].present
  /\ call.gen["ko"].present
  /\ ~call.gen["ko"].korean
  /\ ~call.results["ko"].present
  /\ ~cache[<<call.version, "ko">>].present

\* the teams of a list of workspaces or of failure records, each once
Once(teamIds) ==
  \A i, j \in DOMAIN teamIds : teamIds[i] = teamIds[j] => i = j

\* C40: pass termination. When every awaited call returns or throws, an
\* invocation that holds the lock finishes, after a releaseLock attempt,
\* unless its process dies. On the way the retry phase is entered once,
\* its list names each recipient once and only gets shorter, each record is
\* handled as the head of the list and then dropped from it, and the
\* delivery phase runs once and produces one result for every recipient
\* listed.
C40_PassTermination ==
  /\ \A p \in Procs :
       (pc[p] \in BodyPcs) ~> (pc[p] \in {"release", "crashed"})
  /\ \A p \in Procs :
       (pc[p] \in BodyPcs \cup {"release"}) ~>
         \/ pc[p] = "done" /\ trace[p].releaseAttempts = 1
         \/ pc[p] = "crashed"
  /\ [][\A p \in Procs :
         /\ (pc'[p] \in RetryPcs /\ pc[p] \notin RetryPcs) => Acquires(p)
         /\ (pc'[p] = "deliver" /\ pc[p] # "deliver") => trace[p].sent = NoLog
         /\ pc'[p] = "retry_ws" =>
              Once([i \in DOMAIN local'[p].failedWorkspaces |->
                      local'[p].failedWorkspaces[i].teamId])
         /\ (pc[p] = "retry" /\ pc'[p] = "retry") =>
              Len(local'[p].failedWorkspaces) <= Len(local[p].failedWorkspaces)
         /\ \A t \in Teams :
              (trace'[p].retried[t] \notin {"none", trace[p].retried[t]}) =>
                /\ trace[p].retried[t] = "none"
                /\ pc[p] = "retry"
                /\ local[p].failedWorkspaces # <<>>
                /\ Head(local[p].failedWorkspaces).teamId = t
                /\ \/ pc'[p] = "release"
                   \/ local'[p].failedWorkspaces
                        = Tail(local[p].failedWorkspaces)
         /\ Delivers(p) =>
              /\ Once(local[p].workspaces)
              /\ Len(local'[p].results) = Len(local[p].workspaces)
              /\ \A i \in DOMAIN local[p].workspaces :
                   /\ local'[p].results[i].teamId = local[p].workspaces[i]
                   /\ trace'[p].sent[local[p].workspaces[i]] # "none"]_vars

\* an invocation has handled a failure record in its retry phase, has
\* delivered the new version to both recipients and stands at releaseLock
C40_Witness ==
  \E p \in Procs :
    /\ pc[p] = "release"
    /\ trace[p].endedAt = "none"
    /\ trace[p].retried["T1"] # "none"
    /\ \A t \in Teams : trace[p].sent[t] # "none"

====
